---- MODULE Spec2Model ----
(***************************************************************************)
(* Fleet gateway: the per-robot RobotHandler state machine                 *)
(* (fleet_gateway/robot.py), the FleetHandler router                       *)
(* (fleet_gateway/fleet_handler.py) and the WarehouseController            *)
(* (fleet_gateway/warehouse_controller.py) with its status-update drainer. *)
(*                                                                         *)
(* Four specifications share the state and the handler code:               *)
(*   Spec           job, request and cancel orders on one robot; a handler   *)
(*                  method runs to completion, a controller coroutine        *)
(*                  yields at each await;                                    *)
(*   SpecHandler    one RobotHandler driven through its public methods, as   *)
(*                  tests/unit/test_robot_handler.py drives it;              *)
(*   SpecThreads    the handler methods cut at statement boundaries and      *)
(*                  interleaved between the asyncio loop thread and the      *)
(*                  roslibpy reactor thread (robot.py lines 1-6);            *)
(*   SpecWarehouse  accept_warehouse_order over two robots.                  *)
(***************************************************************************)
EXTENDS Integers, Sequences, FiniteSets, TLC

\* Python's None where a Job (or a uuid) is expected; uuids count from 1.
NONE == 0

\* Python's None where a RobotCellLevel is expected (current_cell).
NO_CELL == -2

\* ---------------------------------------------------------------- bounds
\* Job objects ever constructed (one uuid4 each).
MaxJobs == 4
\* Cells of a robot (the length of its cell_heights configuration).
NumCells == 2

\* ---------------------------------------------------------------- enums
Robots == {"r1", "r2"}

\* RobotCellLevel.UNUSED
UNUSED == -1

CellIdx == 0 .. (NumCells - 1)

JobOperation == {"TRAVEL", "PICKUP", "DELIVERY"}

OrderStatus == {"QUEUING", "IN_PROGRESS", "FAILED", "CANCELED", "COMPLETED"}

TerminalStatus == {"COMPLETED", "CANCELED", "FAILED"}

RobotActionStatus == {"IDLE", "OPERATING", "ERROR", "CANCELED", "SUCCEEDED"}

\* GoalStatus values a result can carry; "LOST" stands for every other value.
GoalStatus == {"SUCCEEDED", "CANCELED", "ABORTED", "LOST"}

\* What send_job meets: the goal is sent, or "raises": one of its three
\* RuntimeErrors (no known tag, no start node, no path), alike in their effect.
DispatchOutcome == {"sent", "raises"}

JobIds == 1 .. MaxJobs

\* ---------------------------------------------------------------- state
VARIABLES
    active_status,       \* [Robots -> BOOLEAN]
    is_connected,        \* [Robots -> BOOLEAN]   roslibpy's connection flag
    last_action_status,  \* [Robots -> RobotActionStatus]
    current_job,         \* [Robots -> JobIds \cup {NONE}]
    current_cell,        \* [Robots -> CellIdx \cup {NO_CELL}]
    job_queue,           \* [Robots -> Seq(JobIds \cup {NONE})]
    cells,               \* [Robots -> [CellIdx -> JobIds \cup {NONE}]]  holding_uuid
    goals,               \* [Robots -> Nat]  goals sent whose terminal callback is due
    jobs,                \* Seq of Job objects; a job's uuid is its index
    job_updater,         \* the shared asyncio.Queue: Seq of references to Job objects
    send_log,            \* history: per robot, the promotions of trigger
    assign_log,          \* history: per robot, the arguments of assign
    emitted,             \* history: <<job, status>> of every put on job_updater
    redis_jobs,          \* OrderStore: [JobIds -> OrderStatus \cup {ABSENT}], key job:{uuid}
    redis_requests,      \* OrderStore: the Request records under request:{uuid}
    request_count,       \* request uuids drawn so far
    store_failures,      \* set_job / set_request calls that returned False
    calls,               \* the controller coroutines in flight, one per caller
    thr,                 \* SpecThreads: where each thread stands in a handler method
    orders               \* history: every controller call and how it ended

handlerVars == <<active_status, is_connected, last_action_status, current_job,
                 current_cell, job_queue, cells, goals, jobs, job_updater,
                 send_log, assign_log, emitted, thr>>

storeVars == <<redis_jobs, redis_requests, request_count, store_failures>>

vars == <<handlerVars, storeVars, calls, orders>>

\* The handler-side state as one value, so that a method calling another
\* (assign -> trigger -> send_job -> update_job_status) is one function.
Cur ==
    [st |-> last_action_status, cj |-> current_job, cc |-> current_cell,
     q |-> job_queue, cl |-> cells, gl |-> goals, js |-> jobs,
     ch |-> job_updater, sl |-> send_log, al |-> assign_log, em |-> emitted,
     th |-> thr, exc |-> "none"]

Commit(S) ==
    /\ last_action_status' = S.st
    /\ current_job' = S.cj
    /\ current_cell' = S.cc
    /\ job_queue' = S.q
    /\ cells' = S.cl
    /\ goals' = S.gl
    /\ jobs' = S.js
    /\ job_updater' = S.ch
    /\ send_log' = S.sl
    /\ assign_log' = S.al
    /\ emitted' = S.em
    /\ thr' = S.th

\* The two threads that run handler methods (robot.py lines 1-6).
Threads == {"loop", "reactor"}

\* A thread that is in no handler method.
Returned == [pc |-> "returned", robot |-> "none", status |-> "none"]

\* ------------------------------------------------------ RobotHandler code
\* connection_status() == ONLINE
Online(r) == is_connected[r]

\* Mutant of ReadyStatus: line 201 is not commented out.
ReadyStatusWithError == {"IDLE", "CANCELED", "SUCCEEDED", "ERROR"}

\* is_ready_status, lines 197-203.
ReadyStatus == {"IDLE", "CANCELED", "SUCCEEDED"}

\* Mutant of Gate: the active flag is not consulted.
GateIgnoresActive(S, r) ==
    /\ Online(r)
    /\ S.cj[r] = NONE
    /\ Len(S.q[r]) > 0
    /\ S.st[r] \in ReadyStatus

\* The condition of trigger's if statement.
Gate(S, r) ==
    /\ active_status[r]
    /\ Online(r)
    /\ S.cj[r] = NONE
    /\ Len(S.q[r]) > 0
    /\ S.st[r] \in ReadyStatus

\* find_free_cell: the first cell whose holding_uuid is None; NO_CELL when it raises.
FreeCells(c) == {i \in CellIdx : c[i] = NONE}

\* Mutant of find_free_cell: the last free cell is taken, not the first.
find_free_cell_last(c) ==
    IF FreeCells(c) = {} THEN NO_CELL
    ELSE CHOOSE i \in FreeCells(c) : \A k \in FreeCells(c) : i >= k

find_free_cell(c) ==
    IF FreeCells(c) = {} THEN NO_CELL
    ELSE CHOOSE i \in FreeCells(c) : \A k \in FreeCells(c) : i <= k

\* current_job.status = status; job_updater.put_nowait(current_job)
Publish(S, r, status) ==
    LET j == S.cj[r] IN
    [S EXCEPT !.js[j].status = status,
              !.ch = Append(@, j),
              !.em = Append(@, <<j, status>>)]

\* Mutant of send_job: line 140, the IN_PROGRESS update, is left out.
send_job_without_update(S, r, job, cell, d) ==
    IF d # "sent"
    THEN [S EXCEPT !.sl[r] = Append(@, [job |-> job, cell |-> cell, outcome |-> "send_failed"]),
                   !.exc = "RuntimeError"]
    ELSE [S EXCEPT !.st[r] = "OPERATING",
                   !.gl[r] = @ + 1,
                   !.sl[r] = Append(@, [job |-> job, cell |-> cell, outcome |-> "sent"])]

\* send_job(job, robot_cell) under the outcome d of its lookups.
send_job(S, r, job, cell, d) ==
    IF d # "sent"
    THEN [S EXCEPT !.sl[r] = Append(@, [job |-> job, cell |-> cell, outcome |-> "send_failed"]),
                   !.exc = "RuntimeError"]
    ELSE LET S1 == [S EXCEPT !.st[r] = "OPERATING"]
             S2 == IF S1.cj[r] = NONE THEN S1 ELSE Publish(S1, r, "IN_PROGRESS")
         IN [S2 EXCEPT !.gl[r] = @ + 1,
                       !.sl[r] = Append(@, [job |-> job, cell |-> cell, outcome |-> "sent"])]

\* Mutant of DispatchFailed: current_cell is not cleared.
DispatchFailedKeepsCell(S, r) ==
    LET j == S.cj[r] IN
    [S EXCEPT !.st[r] = "ERROR",
              !.js[j].status = "FAILED",
              !.ch = Append(@, j),
              !.em = Append(@, <<j, "FAILED">>),
              !.cj[r] = NONE,
              !.exc = "none"]

\* Mutant of DispatchFailed: the FAILED job is not put on job_updater.
DispatchFailedUnreported(S, r) ==
    LET j == S.cj[r] IN
    [S EXCEPT !.st[r] = "ERROR",
              !.js[j].status = "FAILED",
              !.cc[r] = NO_CELL,
              !.cj[r] = NONE,
              !.exc = "none"]

\* The except RuntimeError branch of trigger.
DispatchFailed(S, r) ==
    LET j == S.cj[r] IN
    [S EXCEPT !.st[r] = "ERROR",
              !.js[j].status = "FAILED",
              !.ch = Append(@, j),
              !.em = Append(@, <<j, "FAILED">>),
              !.cc[r] = NO_CELL,
              !.cj[r] = NONE,
              !.exc = "none"]

\* Mutant of Pop: job_queue.pop(), the last entry.
PopLast(S, r) ==
    IF Len(S.q[r]) = 0 THEN [S EXCEPT !.exc = "IndexError"]
    ELSE [S EXCEPT !.q[r] = SubSeq(@, 1, Len(@) - 1), !.cj[r] = S.q[r][Len(S.q[r])]]

\* Mutant of Pop: job_queue[0] is read and stays in the list.
PopKeepsHead(S, r) ==
    IF Len(S.q[r]) = 0 THEN [S EXCEPT !.exc = "IndexError"]
    ELSE [S EXCEPT !.cj[r] = Head(S.q[r])]

\* trigger, line 206: current_job = job_queue.pop(0); IndexError on an empty list.
Pop(S, r) ==
    IF Len(S.q[r]) = 0 THEN [S EXCEPT !.exc = "IndexError"]
    ELSE [S EXCEPT !.q[r] = Tail(@), !.cj[r] = Head(S.q[r])]

\* trigger, lines 207-218: the try statement, reading current_job as it is now.
Dispatch(S, r, d) ==
    LET job == S.cj[r] IN
    IF job = NONE
    THEN \* None.operation: an AttributeError, which trigger does not catch
         [S EXCEPT !.exc = "AttributeError"]
    ELSE IF S.js[job].operation = "PICKUP"
         THEN LET free == find_free_cell(S.cl[r]) IN
              IF free = NO_CELL
              THEN DispatchFailed(
                       [S EXCEPT !.sl[r] = Append(@, [job |-> job, cell |-> NO_CELL,
                                                      outcome |-> "no_free_cell"])], r)
              ELSE LET S2 == send_job([S EXCEPT !.cc[r] = free], r, job, free, d)
                   IN IF S2.exc = "RuntimeError" THEN DispatchFailed(S2, r) ELSE S2
         ELSE LET S2 == send_job(S, r, job, UNUSED, d)
              IN IF S2.exc = "RuntimeError" THEN DispatchFailed(S2, r) ELSE S2

trigger(S, r, d) ==
    IF ~Gate(S, r) THEN S ELSE Dispatch(Pop(S, r), r, d)

\* update_job_status, lines 177-183: what it does to a current job before it
\* calls trigger.
\* Mutant of UpdateCurrent: line 181 writes the job into every cell.
UpdateCurrentFillsCells(S, r, status) ==
    LET j == S.cj[r]
        S1 == Publish(S, r, status)
    IN IF status \in TerminalStatus
       THEN [S1 EXCEPT
               !.cl[r] = IF /\ status = "COMPLETED"
                            /\ S1.js[j].operation = "PICKUP"
                            /\ S1.cc[r] # NO_CELL
                         THEN [i \in CellIdx |-> j]
                         ELSE @,
               !.cc[r] = NO_CELL,
               !.cj[r] = NONE]
       ELSE S1

\* Mutant of UpdateCurrent: line 180 does not ask for status COMPLETED.
UpdateCurrentAnyTerminal(S, r, status) ==
    LET j == S.cj[r]
        S1 == Publish(S, r, status)
    IN IF status \in TerminalStatus
       THEN [S1 EXCEPT
               !.cl[r] = IF /\ S1.js[j].operation = "PICKUP"
                            /\ S1.cc[r] # NO_CELL
                         THEN [@ EXCEPT ![S1.cc[r]] = j]
                         ELSE @,
               !.cc[r] = NO_CELL,
               !.cj[r] = NONE]
       ELSE S1

UpdateCurrent(S, r, status) ==
    LET j == S.cj[r]
        S1 == Publish(S, r, status)
    IN IF status \in TerminalStatus
       THEN [S1 EXCEPT
               !.cl[r] = IF /\ status = "COMPLETED"
                            /\ S1.js[j].operation = "PICKUP"
                            /\ S1.cc[r] # NO_CELL
                         THEN [@ EXCEPT ![S1.cc[r]] = j]
                         ELSE @,
               !.cc[r] = NO_CELL,
               !.cj[r] = NONE]
       ELSE S1

\* Mutant of update_job_status: line 184, the call of trigger, is left out.
update_job_status_without_trigger(S, r, status, d) ==
    IF S.cj[r] = NONE THEN S ELSE UpdateCurrent(S, r, status)

\* Mutant of update_job_status: a completed DELIVERY frees the robot's cells.
update_job_status_frees_on_delivery(S, r, status, d) ==
    IF S.cj[r] = NONE THEN S
    ELSE LET S1 == UpdateCurrent(S, r, status)
             S2 == IF status = "COMPLETED" /\ S.js[S.cj[r]].operation = "DELIVERY"
                   THEN [S1 EXCEPT !.cl[r] = [i \in CellIdx |-> NONE]]
                   ELSE S1
         IN IF status \in TerminalStatus THEN trigger(S2, r, d) ELSE S2

update_job_status(S, r, status, d) ==
    IF S.cj[r] = NONE THEN S
    ELSE IF status \in TerminalStatus
         THEN trigger(UpdateCurrent(S, r, status), r, d)
         ELSE UpdateCurrent(S, r, status)

assign(S, r, job, d) ==
    trigger([S EXCEPT !.q[r] = Append(@, job), !.al[r] = Append(@, job)], r, d)

\* clear_error's effect; its return value is last_action_status = ERROR before.
clear_error(S, r, d) ==
    IF S.st[r] = "ERROR" THEN trigger([S EXCEPT !.st[r] = "IDLE"], r, d) ELSE S

\* How a call of clear_error ends: it returns True or False, or the exception
\* of its trigger leaves it.
clear_error_returns(S, r, d) ==
    IF clear_error(S, r, d).exc # "none" THEN clear_error(S, r, d).exc
    ELSE IF S.st[r] = "ERROR" THEN "True" ELSE "False"

\* The action status and the job status a result callback sets.
\* Mutant of ResultActionStatus: an ABORTED result is taken for a cancellation.
ResultActionStatusAbortedCanceled(g) ==
    CASE g = "SUCCEEDED" -> "IDLE"
      [] g \in {"CANCELED", "ABORTED"} -> "CANCELED"
      [] OTHER -> "ERROR"

ResultActionStatus(g) ==
    CASE g = "SUCCEEDED" -> "IDLE"
      [] g = "CANCELED" -> "CANCELED"
      [] OTHER -> "ERROR"

ResultJobStatus(g) ==
    CASE g = "SUCCEEDED" -> "COMPLETED"
      [] g = "CANCELED" -> "CANCELED"
      [] OTHER -> "FAILED"

on_result(S, r, g, d) ==
    update_job_status([S EXCEPT !.st[r] = ResultActionStatus(g)], r, ResultJobStatus(g), d)

on_error(S, r, d) ==
    update_job_status([S EXCEPT !.st[r] = "ERROR"], r, "FAILED", d)

\* ------------------------------------------------------ FleetHandler code
\* Names a caller may give; "rx" is in no configuration.
RobotNames == Robots \cup {"rx"}

\* assign_job: a no-op for a name that is not in handlers.
assign_job(S, name, job, d) ==
    IF name \notin Robots THEN S ELSE assign(S, name, job, d)

\* The position remove_queued_job pops: the first entry with that uuid; 0 when none.
QueuedAt(queue, uuid) ==
    IF \E i \in 1 .. Len(queue) : queue[i] = uuid
    THEN CHOOSE i \in 1 .. Len(queue) :
             /\ queue[i] = uuid
             /\ \A k \in 1 .. (i - 1) : queue[k] # uuid
    ELSE 0

RemoveAt(queue, i) ==
    [k \in 1 .. (Len(queue) - 1) |-> IF k < i THEN queue[k] ELSE queue[k + 1]]

\* remove_queued_job; a None entry met before the uuid raises (None.uuid).
remove_queued_job(S, name, uuid) ==
    IF name \notin Robots THEN S
    ELSE LET queue == S.q[name]
             at == QueuedAt(queue, uuid)
             nones == {i \in 1 .. Len(queue) : queue[i] = NONE}
         IN IF \E i \in nones : at = 0 \/ i < at
            THEN [S EXCEPT !.exc = "AttributeError"]
            ELSE IF at = 0 THEN S
                 ELSE [S EXCEPT !.q[name] = RemoveAt(queue, at)]

\* free_cell: cells[cell_index].holding_uuid = None, within the index range.
free_cell(S, name, cell_index) ==
    IF name \notin Robots \/ cell_index \notin CellIdx THEN S
    ELSE [S EXCEPT !.cl[name][cell_index] = NONE]

\* ------------------------------------------------- the robots' environment
\* The transport delivers the terminal result of a goal it was sent.
TransportResult(r, g, d) ==
    /\ goals[r] > 0
    /\ Commit([on_result(Cur, r, g, d) EXCEPT !.gl[r] = @ - 1])
    /\ UNCHANGED <<active_status, is_connected, storeVars, calls, orders>>

\* The transport reports a fault of a goal it was sent.
TransportError(r, d) ==
    /\ goals[r] > 0
    /\ Commit([on_error(Cur, r, d) EXCEPT !.gl[r] = @ - 1])
    /\ UNCHANGED <<active_status, is_connected, storeVars, calls, orders>>

\* The websocket to the robot opens or closes (Ros.is_connected).
ConnectionChange(r) ==
    /\ is_connected' = [is_connected EXCEPT ![r] = ~@]
    /\ UNCHANGED <<active_status, last_action_status, current_job, current_cell,
                   job_queue, cells, goals, jobs, job_updater, send_log, assign_log,
                   emitted, thr, storeVars, calls, orders>>

\* active_status is assigned by the operator.
SetActive(r) ==
    /\ active_status' = [active_status EXCEPT ![r] = ~@]
    /\ UNCHANGED <<is_connected, last_action_status, current_job, current_cell,
                   job_queue, cells, goals, jobs, job_updater, send_log, assign_log,
                   emitted, thr, storeVars, calls, orders>>

ClearError(r, d) ==
    /\ Commit(clear_error(Cur, r, d))
    /\ UNCHANGED <<active_status, is_connected, storeVars, calls, orders>>

FreeCell(r, i) ==
    /\ Commit(free_cell(Cur, r, i))
    /\ UNCHANGED <<active_status, is_connected, storeVars, calls, orders>>

\* --------------------------------------------------------- OrderStore
\* No key job:{uuid}.
ABSENT == "ABSENT"

\* Store calls that may fail in one run.
MaxStoreFailures == 1

\* set_job(job): on success the hash job:{uuid} holds the job as it is now.
set_job(store, js, uuid, ok) ==
    IF ok THEN [store EXCEPT ![uuid] = js[uuid].status] ELSE store

\* A store call returns ok.
Stored(ok) ==
    /\ ok \/ store_failures < MaxStoreFailures
    /\ store_failures' = IF ok THEN store_failures ELSE store_failures + 1

\* ---------------------------------------------------- WarehouseController
\* Calls in flight at once, and calls made in all.
MaxCalls == 2
MaxOrders == 2

Callers == 1 .. MaxCalls

\* The route oracle's graph: node ids and their node_type.
NumNodes == 3

Nodes == 1 .. NumNodes

NodeTypeOf(n) ==
    CASE n = 1 -> "WAYPOINT"
      [] n = 2 -> "SHELF"
      [] OTHER -> "DEPOT"

\* A node id the graph does not have.
UnknownNode == NumNodes + 1

\* route_oracle.get_node(id): the Node, or None when the graph has no such node.
get_node(id) == IF id \in Nodes THEN id ELSE NONE

\* Mutant of node_to_dict: None is serialised like a Node.
node_to_dict_of_none(node) == "dict"

\* node_to_dict(node) reads node.id: an AttributeError when node is None.
node_to_dict(node) == IF node = NONE THEN "AttributeError" ELSE "dict"

Idle ==
    [op |-> "idle", pc |-> "idle", robot |-> "none", a |-> NONE, b |-> NONE,
     req |-> NONE, ok |-> TRUE, read |-> ABSENT, asg |-> <<>>, route |-> <<>>,
     pickup |-> 0, delivery |-> 0, order |-> 0, queued |-> FALSE]

\* Job(uuid=uuid4(), status=QUEUING, ...): the new object is the last of jobs.
NewJob(operation, robot, request, order) ==
    [operation |-> operation, robot |-> robot, request |-> request,
     status |-> "QUEUING", order |-> order]

\* Job objects the calls in flight have yet to construct.
Owed(c) ==
    IF calls[c].op \in {"request", "warehouse"} /\ calls[c].pc = "pickup_stored"
    THEN 1 ELSE 0

RECURSIVE OwedBy(_)
OwedBy(cs) ==
    IF cs = {} THEN 0
    ELSE LET c == CHOOSE x \in cs : TRUE IN Owed(c) + OwedBy(cs \ {c})

Room(n) == Len(jobs) + OwedBy(Callers) + n <= MaxJobs

\* A caller makes a call; the callers are taken in order.
Begin(c) ==
    /\ calls[c].op = "idle"
    /\ \A k \in 1 .. (c - 1) : calls[k].op # "idle"
    /\ Len(orders) < MaxOrders

\* The call is under way, or it ended (raised, or returned) before its first await.
Began(op) == orders' = Append(orders, [op |-> op, result |-> "pending"])

Ended(op, result) == orders' = Append(orders, [op |-> op, result |-> result])

Finish(c, result) ==
    /\ calls' = [calls EXCEPT ![c] = Idle]
    /\ orders' = [orders EXCEPT ![calls[c].order].result = result]

robotVars == <<active_status, is_connected, last_action_status, current_job,
               current_cell, job_queue, cells, goals, job_updater, send_log,
               assign_log, emitted, thr>>

\* accept_job_order up to its await of set_job. The RuntimeErrors of lines 64
\* and 67 end the call as "raised". An absent target ends it as "no_target":
\* for TRAVEL line 66 reads None.node_type, for the other operations set_job
\* serialises the Job (job_to_dict -> node_to_dict) before it writes.
AcceptJobOrder(c, robot_name, operation, node, ok) ==
    /\ Begin(c)
    /\ Room(1)
    /\ LET target_node == get_node(node) IN
       IF \/ robot_name \notin Robots
          \/ /\ operation = "TRAVEL"
             /\ target_node # NONE
             /\ NodeTypeOf(target_node) # "WAYPOINT"
       THEN /\ ok
            /\ Ended("job", "raised")
            /\ UNCHANGED <<handlerVars, storeVars, calls>>
       ELSE IF \/ operation = "TRAVEL" /\ target_node = NONE
               \/ node_to_dict(target_node) = "AttributeError"
       THEN /\ ok
            /\ Ended("job", "no_target")
            /\ UNCHANGED <<handlerVars, storeVars, calls>>
       ELSE LET uuid == Len(jobs) + 1
                js == Append(jobs, NewJob(operation, robot_name, NONE, Len(orders) + 1))
            IN /\ Began("job")
               /\ Stored(ok)
               /\ jobs' = js
               /\ redis_jobs' = set_job(redis_jobs, js, uuid, ok)
               /\ calls' = [calls EXCEPT ![c] =
                     [Idle EXCEPT !.op = "job", !.pc = "stored", !.robot = robot_name,
                                  !.a = uuid, !.ok = ok, !.order = Len(orders) + 1]]
               /\ UNCHANGED <<robotVars, redis_requests, request_count>>

\* Mutant of AcceptJobOrderStored: the job is assigned whatever set_job returned.
AcceptJobOrderStoredUnchecked(c, d) ==
    /\ calls[c].op = "job"
    /\ LET S == assign_job(Cur, calls[c].robot, calls[c].a, d)
       IN /\ Commit(S)
          /\ Finish(c, IF S.exc # "none" THEN "raised"
                       ELSE IF calls[c].ok THEN "success" ELSE "failure")
          /\ UNCHANGED <<active_status, is_connected, storeVars>>

\* accept_job_order after set_job returned.
AcceptJobOrderStored(c, d) ==
    /\ calls[c].op = "job"
    /\ IF ~calls[c].ok
       THEN /\ d = "sent"
            /\ Finish(c, "failure")
            /\ UNCHANGED <<handlerVars, storeVars>>
       ELSE LET S == assign_job(Cur, calls[c].robot, calls[c].a, d)
            IN /\ Commit(S)
               /\ Finish(c, IF S.exc = "none" THEN "success" ELSE "raised")
               /\ UNCHANGED <<active_status, is_connected, storeVars>>

\* create_request_jobs after set_job(pickup_job) returned, up to the next await.
DeliveryJob(c, ok) ==
    IF ~calls[c].ok
    THEN /\ ok
         /\ Finish(c, "raised")
         /\ UNCHANGED <<handlerVars, storeVars>>
    ELSE LET uuid == Len(jobs) + 1
             js == Append(jobs, NewJob("DELIVERY", calls[c].robot, calls[c].req,
                                       calls[c].order))
         IN /\ Stored(ok)
            /\ jobs' = js
            /\ redis_jobs' = set_job(redis_jobs, js, uuid, ok)
            /\ calls' = [calls EXCEPT ![c].pc = "delivery_stored", ![c].b = uuid,
                                      ![c].ok = ok]
            /\ UNCHANGED <<robotVars, redis_requests, request_count, orders>>

\* create_request_jobs after set_job(delivery_job) returned: set_request.
RequestRecord(c, ok) ==
    IF ~calls[c].ok
    THEN /\ ok
         /\ Finish(c, "raised")
         /\ UNCHANGED <<handlerVars, storeVars>>
    ELSE /\ Stored(ok)
         /\ redis_requests' =
               IF ok
               THEN redis_requests \cup
                        {[uuid |-> calls[c].req, pickup |-> calls[c].a,
                          delivery |-> calls[c].b, robot |-> calls[c].robot]}
               ELSE redis_requests
         /\ calls' = [calls EXCEPT ![c].pc = "request_stored", ![c].ok = ok]
         /\ UNCHANGED <<handlerVars, redis_jobs, request_count, orders>>

\* create_request_jobs up to its first await: the request uuid, the pickup job.
PickupJob(c, op, robot_name, order, pickup, delivery, ok) ==
    LET uuid == Len(jobs) + 1
        request == request_count + 1
        js == Append(jobs, NewJob("PICKUP", robot_name, request, order))
    IN /\ Stored(ok)
       /\ request_count' = request
       /\ jobs' = js
       /\ redis_jobs' = set_job(redis_jobs, js, uuid, ok)
       /\ calls' = [calls EXCEPT ![c].op = op, ![c].pc = "pickup_stored",
                                 ![c].robot = robot_name, ![c].a = uuid,
                                 ![c].b = NONE, ![c].req = request, ![c].ok = ok,
                                 ![c].pickup = pickup, ![c].delivery = delivery,
                                 ![c].order = order]
       /\ UNCHANGED <<robotVars, redis_requests>>

\* accept_request_order up to the first await of create_request_jobs.
AcceptRequestOrder(c, robot_name, pickup, delivery, ok) ==
    /\ Begin(c)
    /\ Room(2)
    /\ Began("request")
    /\ PickupJob(c, "request", robot_name, Len(orders) + 1, pickup, delivery, ok)

AcceptRequestOrderPickupStored(c, ok) ==
    /\ calls[c].op = "request"
    /\ calls[c].pc = "pickup_stored"
    /\ DeliveryJob(c, ok)

AcceptRequestOrderDeliveryStored(c, ok) ==
    /\ calls[c].op = "request"
    /\ calls[c].pc = "delivery_stored"
    /\ RequestRecord(c, ok)

\* Mutant of AcceptRequestOrderStored: the delivery job is assigned first.
AcceptRequestOrderStoredDeliveryFirst(c, d) ==
    /\ calls[c].op = "request"
    /\ calls[c].pc = "request_stored"
    /\ IF ~calls[c].ok
       THEN /\ d = "sent"
            /\ Finish(c, "raised")
            /\ UNCHANGED <<handlerVars, storeVars>>
       ELSE LET S1 == assign_job(Cur, calls[c].robot, calls[c].b, d)
                S2 == IF S1.exc = "none"
                      THEN assign_job(S1, calls[c].robot, calls[c].a, d)
                      ELSE S1
            IN /\ Commit(S2)
               /\ Finish(c, IF S2.exc = "none" THEN "success" ELSE "raised")
               /\ UNCHANGED <<active_status, is_connected, storeVars>>

\* accept_request_order after create_request_jobs: the two calls of assign_job.
AcceptRequestOrderStored(c, d) ==
    /\ calls[c].op = "request"
    /\ calls[c].pc = "request_stored"
    /\ IF ~calls[c].ok
       THEN /\ d = "sent"
            /\ Finish(c, "raised")
            /\ UNCHANGED <<handlerVars, storeVars>>
       ELSE LET S1 == assign_job(Cur, calls[c].robot, calls[c].a, d)
                S2 == IF S1.exc = "none"
                      THEN assign_job(S1, calls[c].robot, calls[c].b, d)
                      ELSE S1
            IN /\ Commit(S2)
               /\ Finish(c, IF S2.exc = "none" THEN "success" ELSE "raised")
               /\ UNCHANGED <<active_status, is_connected, storeVars>>

\* cancel_job_order after get_job returned `read`: the rest of the method.
\* The Job it changes and stores is the copy get_job built, not the handler's.
\* wrote: whether set_job was called.
CancelJob(S, store, uuid, read, ok) ==
    IF read = ABSENT \/ read \in TerminalStatus
    THEN [S |-> S, store |-> store, wrote |-> FALSE]
    ELSE LET S1 == remove_queued_job(S, S.js[uuid].robot, uuid)
         IN IF S1.exc # "none"
            THEN [S |-> S1, store |-> store, wrote |-> FALSE]
            ELSE [S |-> S1,
                  store |-> IF ok THEN [store EXCEPT ![uuid] = "CANCELED"] ELSE store,
                  wrote |-> TRUE]

\* Job uuid waits in the queue of its robot.
Waiting(uuid) ==
    /\ jobs[uuid].robot \in Robots
    /\ \E n \in 1 .. Len(job_queue[jobs[uuid].robot]) :
          job_queue[jobs[uuid].robot][n] = uuid

\* cancel_job_order up to its await of get_job; queued: history, whether the
\* job waited in a queue when the call was made.
CancelJobOrder(c, uuid) ==
    /\ Begin(c)
    /\ uuid \in 1 .. Len(jobs)
    /\ Began("cancel_job")
    /\ calls' = [calls EXCEPT ![c] =
          [Idle EXCEPT !.op = "cancel_job", !.pc = "read", !.a = uuid,
                       !.read = redis_jobs[uuid], !.order = Len(orders) + 1,
                       !.queued = Waiting(uuid)]]
    /\ UNCHANGED <<handlerVars, storeVars>>

CancelJobOrderRead(c, ok) ==
    /\ calls[c].op = "cancel_job"
    /\ LET R == CancelJob(Cur, redis_jobs, calls[c].a, calls[c].read, ok)
       IN /\ Commit(R.S)
          /\ redis_jobs' = R.store
          /\ IF R.wrote THEN Stored(ok) ELSE ok /\ UNCHANGED store_failures
          /\ Finish(c, IF R.S.exc # "none" THEN "raised"
                       ELSE IF calls[c].read = ABSENT THEN "none" ELSE "job")
          /\ UNCHANGED <<active_status, is_connected, redis_requests, request_count>>

\* cancel_request_order up to its await of get_request.
CancelRequestOrder(c, request) ==
    /\ Begin(c)
    /\ request \in {x.uuid : x \in redis_requests}
    /\ LET x == CHOOSE x \in redis_requests : x.uuid = request
       IN /\ Began("cancel_request")
          /\ calls' = [calls EXCEPT ![c] =
                [Idle EXCEPT !.op = "cancel_request", !.pc = "found", !.req = request,
                             !.a = x.pickup, !.b = x.delivery,
                             !.order = Len(orders) + 1]]
    /\ UNCHANGED <<handlerVars, storeVars>>

\* cancel_request_order: the get_job of cancel_job_order(pickup_uuid), then of
\* cancel_job_order(delivery_uuid).
CancelRequestOrderGet(c) ==
    /\ calls[c].op = "cancel_request"
    /\ calls[c].pc \in {"found", "pickup_done"}
    /\ calls' = [calls EXCEPT
          ![c].pc = IF calls[c].pc = "found" THEN "pickup_read" ELSE "delivery_read",
          ![c].read = redis_jobs[IF calls[c].pc = "found" THEN calls[c].a ELSE calls[c].b]]
    /\ UNCHANGED <<handlerVars, storeVars, orders>>

\* cancel_request_order: the rest of either cancel_job_order.
CancelRequestOrderRead(c, ok) ==
    /\ calls[c].op = "cancel_request"
    /\ calls[c].pc \in {"pickup_read", "delivery_read"}
    /\ LET first == calls[c].pc = "pickup_read"
           R == CancelJob(Cur, redis_jobs, IF first THEN calls[c].a ELSE calls[c].b,
                          calls[c].read, ok)
       IN /\ Commit(R.S)
          /\ redis_jobs' = R.store
          /\ IF R.wrote THEN Stored(ok) ELSE ok /\ UNCHANGED store_failures
          /\ IF R.S.exc # "none" THEN Finish(c, "raised")
             ELSE IF first
             THEN /\ calls' = [calls EXCEPT ![c].pc = "pickup_done"]
                  /\ UNCHANGED orders
             ELSE Finish(c, "request")
          /\ UNCHANGED <<active_status, is_connected, redis_requests, request_count>>

\* Mutant of Drain: a job whose set_job failed stays on the channel.
DrainRetries(ok) ==
    /\ Len(job_updater) > 0
    /\ Stored(ok)
    /\ redis_jobs' = set_job(redis_jobs, jobs, Head(job_updater), ok)
    /\ job_updater' = IF ok THEN Tail(job_updater) ELSE job_updater
    /\ UNCHANGED <<active_status, is_connected, last_action_status, current_job,
                   current_cell, job_queue, cells, goals, jobs, send_log, assign_log,
                   emitted, thr, redis_requests, request_count, calls, orders>>

\* handle_job_updater: one turn of its loop.
Drain(ok) ==
    /\ Len(job_updater) > 0
    /\ Stored(ok)
    /\ redis_jobs' = set_job(redis_jobs, jobs, Head(job_updater), ok)
    /\ job_updater' = Tail(job_updater)
    /\ UNCHANGED <<active_status, is_connected, last_action_status, current_job,
                   current_cell, job_queue, cells, goals, jobs, send_log, assign_log,
                   emitted, thr, redis_requests, request_count, calls, orders>>

\* ------------------------------------------------------------ the system
Init ==
    /\ active_status = [r \in Robots |-> TRUE]
    /\ is_connected = [r \in Robots |-> TRUE]
    /\ last_action_status = [r \in Robots |-> "IDLE"]
    /\ current_job = [r \in Robots |-> NONE]
    /\ current_cell = [r \in Robots |-> NO_CELL]
    /\ job_queue = [r \in Robots |-> <<>>]
    /\ cells = [r \in Robots |-> [i \in CellIdx |-> NONE]]
    /\ goals = [r \in Robots |-> 0]
    /\ jobs = <<>>
    /\ job_updater = <<>>
    /\ send_log = [r \in Robots |-> <<>>]
    /\ assign_log = [r \in Robots |-> <<>>]
    /\ emitted = <<>>
    /\ redis_jobs = [j \in JobIds |-> ABSENT]
    /\ redis_requests = {}
    /\ request_count = 0
    /\ store_failures = 0
    /\ calls = [c \in Callers |-> Idle]
    /\ thr = [t \in Threads |-> Returned]
    /\ orders = <<>>

\* The robot the callers of Spec address; "rx" is a name of no robot.
Served == {"r1"}

Next ==
    \/ \E r \in Served, g \in GoalStatus, d \in DispatchOutcome : TransportResult(r, g, d)
    \/ \E r \in Served, d \in DispatchOutcome : TransportError(r, d)
    \/ \E r \in Served : ConnectionChange(r)
    \/ \E r \in Served, d \in DispatchOutcome : ClearError(r, d)
    \/ \E r \in Served, i \in CellIdx : FreeCell(r, i)
    \/ \E ok \in BOOLEAN : Drain(ok)
    \/ \E c \in Callers, n \in Served \cup {"rx"}, o \in JobOperation,
          t \in Nodes \cup {UnknownNode}, ok \in BOOLEAN : AcceptJobOrder(c, n, o, t, ok)
    \/ \E c \in Callers, d \in DispatchOutcome : AcceptJobOrderStored(c, d)
    \/ \E c \in Callers, n \in Served \cup {"rx"}, ok \in BOOLEAN :
          AcceptRequestOrder(c, n, 2, 3, ok)
    \/ \E c \in Callers, ok \in BOOLEAN : AcceptRequestOrderPickupStored(c, ok)
    \/ \E c \in Callers, ok \in BOOLEAN : AcceptRequestOrderDeliveryStored(c, ok)
    \/ \E c \in Callers, d \in DispatchOutcome : AcceptRequestOrderStored(c, d)
    \/ \E c \in Callers, j \in JobIds : CancelJobOrder(c, j)
    \/ \E c \in Callers, ok \in BOOLEAN : CancelJobOrderRead(c, ok)
    \/ \E c \in Callers, q \in 1 .. MaxJobs : CancelRequestOrder(c, q)
    \/ \E c \in Callers : CancelRequestOrderGet(c)
    \/ \E c \in Callers, ok \in BOOLEAN : CancelRequestOrderRead(c, ok)

Spec == Init /\ [][Next]_vars

\* ------------------------------------------- one RobotHandler, its methods
\* assign(job) and assign(None) calls made in one run.
MaxAssigns == 3
MaxNone == 1

\* assign(job) with a job just constructed.
Assign(r, operation, d) ==
    /\ Len(jobs) < MaxAssigns
    /\ LET js == Append(jobs, NewJob(operation, r, NONE, 0))
       IN Commit(assign([Cur EXCEPT !.js = js], r, Len(js), d))
    /\ UNCHANGED <<active_status, is_connected, storeVars, calls, orders>>

\* assign(None): what accept_warehouse_order passes for an unclaimed route slot.
AssignNone(r, d) ==
    /\ Cardinality({i \in 1 .. Len(assign_log[r]) : assign_log[r][i] = NONE}) < MaxNone
    /\ Commit(assign(Cur, r, NONE, d))
    /\ UNCHANGED <<active_status, is_connected, storeVars, calls, orders>>

Trigger(r, d) ==
    /\ Commit(trigger(Cur, r, d))
    /\ UNCHANGED <<active_status, is_connected, storeVars, calls, orders>>

RemoveQueuedJob(r, uuid) ==
    /\ uuid \in 1 .. Len(jobs)
    /\ Commit(remove_queued_job(Cur, r, uuid))
    /\ UNCHANGED <<active_status, is_connected, storeVars, calls, orders>>

NextHandler ==
    \/ \E r \in Served, o \in JobOperation, d \in DispatchOutcome : Assign(r, o, d)
    \/ \E r \in Served, d \in DispatchOutcome : AssignNone(r, d)
    \/ \E r \in Served, d \in DispatchOutcome : Trigger(r, d)
    \/ \E r \in Served, j \in JobIds : RemoveQueuedJob(r, j)
    \/ \E r \in Served, g \in GoalStatus, d \in DispatchOutcome : TransportResult(r, g, d)
    \/ \E r \in Served, d \in DispatchOutcome : TransportError(r, d)
    \/ \E r \in Served : ConnectionChange(r)
    \/ \E r \in Served : SetActive(r)
    \/ \E r \in Served, d \in DispatchOutcome : ClearError(r, d)
    \/ \E r \in Served, i \in CellIdx : FreeCell(r, i)

SpecHandler == Init /\ [][NextHandler]_vars

\* The handler with a robot that answers: every goal sent gets its terminal
\* callback. Nothing else is promised: the calls of the API, the connection
\* and the operator may stop at any moment.
TransportAnswers ==
    \E r \in Served, g \in GoalStatus, d \in DispatchOutcome : TransportResult(r, g, d)

SpecLive == Init /\ [][NextHandler]_vars /\ WF_vars(TransportAnswers)

\* ---------------------- the handler methods, one statement group at a time
\* Thread t stands at pc in a method of r's handler, or has left it.
At(S, t, pc, r, status) ==
    [S EXCEPT !.th[t] = [pc |-> pc, robot |-> r, status |-> status]]

Leave(S, t) == [S EXCEPT !.th[t] = Returned]

\* The loop thread calls assign(job): line 171, then on to trigger.
LoopAssign(r, operation) ==
    /\ thr["loop"].pc = "returned"
    /\ Len(jobs) < MaxAssigns
    /\ LET js == Append(jobs, NewJob(operation, r, NONE, 0))
           S == [Cur EXCEPT !.js = js,
                            !.q[r] = Append(@, Len(js)),
                            !.al[r] = Append(@, Len(js))]
       IN Commit(At(S, "loop", "gate", r, "none"))
    /\ UNCHANGED <<active_status, is_connected, storeVars, calls, orders>>

\* The loop thread calls clear_error: lines 221-222, then on to trigger.
LoopClearError(r) ==
    /\ thr["loop"].pc = "returned"
    /\ last_action_status[r] = "ERROR"
    /\ Commit(At([Cur EXCEPT !.st[r] = "IDLE"], "loop", "gate", r, "none"))
    /\ UNCHANGED <<active_status, is_connected, storeVars, calls, orders>>

\* The reactor thread runs on_result: the assignment of last_action_status.
ReactorResult(r, g) ==
    /\ thr["reactor"].pc = "returned"
    /\ goals[r] > 0
    /\ Commit(At([Cur EXCEPT !.st[r] = ResultActionStatus(g), !.gl[r] = @ - 1],
                 "reactor", "update", r, ResultJobStatus(g)))
    /\ UNCHANGED <<active_status, is_connected, storeVars, calls, orders>>

\* The reactor thread runs on_error: the assignment of last_action_status.
ReactorError(r) ==
    /\ thr["reactor"].pc = "returned"
    /\ goals[r] > 0
    /\ Commit(At([Cur EXCEPT !.st[r] = "ERROR", !.gl[r] = @ - 1],
                 "reactor", "update", r, "FAILED"))
    /\ UNCHANGED <<active_status, is_connected, storeVars, calls, orders>>

\* update_job_status of a callback, lines 175-183.
UpdateStep(t) ==
    /\ thr[t].pc = "update"
    /\ LET r == thr[t].robot IN
       IF current_job[r] = NONE
       THEN Commit(Leave(Cur, t))
       ELSE Commit(At(UpdateCurrent(Cur, r, thr[t].status), t, "gate", r, "none"))
    /\ UNCHANGED <<active_status, is_connected, storeVars, calls, orders>>

\* trigger, lines 197-205: the condition is evaluated.
GateStep(t) ==
    /\ thr[t].pc = "gate"
    /\ LET r == thr[t].robot IN
       IF Gate(Cur, r)
       THEN Commit(At(Cur, t, "pop", r, "none"))
       ELSE Commit(Leave(Cur, t))
    /\ UNCHANGED <<active_status, is_connected, storeVars, calls, orders>>

\* trigger, line 206.
PopStep(t) ==
    /\ thr[t].pc = "pop"
    /\ LET r == thr[t].robot
           S == Pop(Cur, r)
       IN IF S.exc # "none"
          THEN Commit(Leave(S, t))
          ELSE Commit(At(S, t, "dispatch", r, "none"))
    /\ UNCHANGED <<active_status, is_connected, storeVars, calls, orders>>

\* trigger, lines 207-218.
DispatchStep(t, d) ==
    /\ thr[t].pc = "dispatch"
    /\ Commit(Leave(Dispatch(Cur, thr[t].robot, d), t))
    /\ UNCHANGED <<active_status, is_connected, storeVars, calls, orders>>

NextThreads ==
    \/ \E r \in Served, o \in JobOperation : LoopAssign(r, o)
    \/ \E r \in Served : LoopClearError(r)
    \/ \E r \in Served, g \in GoalStatus : ReactorResult(r, g)
    \/ \E r \in Served : ReactorError(r)
    \/ \E t \in Threads : UpdateStep(t)
    \/ \E t \in Threads : GateStep(t)
    \/ \E t \in Threads : PopStep(t)
    \/ \E t \in Threads, d \in DispatchOutcome : DispatchStep(t, d)

SpecThreads == Init /\ [][NextThreads]_vars

\* ------------------------------------------------------------ properties
\* The five conditions of trigger, read from the state a step starts in.
FiveConditions(r) ==
    /\ active_status[r]
    /\ is_connected[r]
    /\ current_job[r] = NONE
    /\ Len(job_queue[r]) > 0
    /\ last_action_status[r] \in {"IDLE", "CANCELED", "SUCCEEDED"}

\* The step removes the first entry of r's queue and nothing else of it.
PopsHead(r) ==
    /\ Len(job_queue[r]) > 0
    /\ job_queue'[r] = Tail(job_queue[r])

\* The step calls send_job once on r, for the entry that headed the queue.
CallsSendJob(r) ==
    /\ Len(job_queue[r]) > 0
    /\ Len(send_log'[r]) = Len(send_log[r]) + 1
    /\ send_log'[r][Len(send_log'[r])].job = Head(job_queue[r])
    /\ send_log'[r][Len(send_log'[r])].outcome \in {"sent", "send_failed"}

\* The step leaves what trigger may touch as it was.
TriggerNoOp ==
    UNCHANGED <<job_queue, current_job, current_cell, cells, last_action_status,
                job_updater, send_log, emitted, jobs, goals>>

\* The head of r's queue is a job that send_job can be called for: not an
\* empty entry, and not a PICKUP meeting no free cell.
HeadDispatchable(r) ==
    /\ Len(job_queue[r]) > 0
    /\ Head(job_queue[r]) # NONE
    /\ \/ jobs[Head(job_queue[r])].operation # "PICKUP"
       \/ \E i \in CellIdx : cells[r][i] = NONE

\* C1 as stated: a call of trigger pops the queue head and calls send_job if
\* and only if the five conditions hold, and changes nothing when one fails.
C1_Original ==
    [][\A r \in Served, d \in DispatchOutcome :
          Trigger(r, d) =>
              /\ (PopsHead(r) /\ CallsSendJob(r)) <=> FiveConditions(r)
              /\ ~FiveConditions(r) => TriggerNoOp]_vars

\* C1 amended: a call of trigger pops the queue head if and only if the five
\* conditions hold; it then calls send_job if and only if the popped entry is
\* a job and, when the job is a PICKUP, some cell is free; when a condition
\* fails the call changes nothing, however often it is made.
C1_TriggerGate ==
    [][\A r \in Served, d \in DispatchOutcome :
          Trigger(r, d) =>
              /\ PopsHead(r) <=> FiveConditions(r)
              /\ CallsSendJob(r) <=> (FiveConditions(r) /\ HeadDispatchable(r))
              /\ ~FiveConditions(r) => TriggerNoOp]_vars

\* C1 witness: trigger has popped a PICKUP that met no free cell, and r's
\* queue now waits behind a closed gate.
C1_Witness ==
    /\ \E i \in 1 .. Len(send_log["r1"]) : send_log["r1"][i].outcome = "no_free_cell"
    /\ \E i \in 1 .. Len(send_log["r1"]) : send_log["r1"][i].outcome = "sent"
    /\ Len(job_queue["r1"]) > 0
    /\ ~FiveConditions("r1")

\* C2: once the status persisted for a job is FAILED, CANCELED or COMPLETED,
\* no step changes that persisted status.
C2_PersistedTerminalIsFinal ==
    [][\A j \in JobIds :
          redis_jobs[j] \in TerminalStatus => redis_jobs'[j] = redis_jobs[j]]_vars

\* Jobs given to assign on r that are neither waiting, nor current, nor were
\* ever taken up by a dispatch attempt.
LostJobs(r) ==
    {assign_log[r][i] : i \in 1 .. Len(assign_log[r])}
        \ ({NONE, current_job[r]}
           \cup {job_queue[r][i] : i \in 1 .. Len(job_queue[r])}
           \cup {send_log[r][i].job : i \in 1 .. Len(send_log[r])})

\* C3: under every interleaving of the loop thread's assign and clear_error
\* with the reactor thread's callbacks, a robot has at most one goal whose
\* terminal callback is due, and no popped job is overwritten in current_job
\* before a dispatch took it up.
C3_OneJobInFlight ==
    \A r \in Robots : goals[r] <= 1 /\ LostJobs(r) = {}

\* The calls of send_job in r's log of promotions.
SendJobCalls(r) ==
    {i \in 1 .. Len(send_log[r]) : send_log[r][i].outcome \in {"sent", "send_failed"}}

\* The place of job j among the calls of assign on r.
AssignPos(r, j) == CHOOSE i \in 1 .. Len(assign_log[r]) : assign_log[r][i] = j

\* C4: FIFO dispatch: of two jobs for which send_job was called on r, the one
\* assigned first had its send_job call first, whatever completions, failures,
\* clear_error calls and removals of queued jobs came between.
C4_FifoDispatch ==
    \A r \in Robots : \A i, k \in SendJobCalls(r) :
        i < k => AssignPos(r, send_log[r][i].job) < AssignPos(r, send_log[r][k].job)

\* C4 witness: two jobs were dispatched in turn on r1 and a job assigned
\* between them was removed from the queue.
C4_Witness ==
    /\ Len(assign_log["r1"]) = 3
    /\ \E i, k \in SendJobCalls("r1") :
          /\ i < k
          /\ send_log["r1"][i].job = assign_log["r1"][1]
          /\ send_log["r1"][k].job = assign_log["r1"][3]
    /\ assign_log["r1"][2] # NONE
    /\ assign_log["r1"][2] \in LostJobs("r1")

C6_DispatchFailure ==
    [][\A r \in Served, d \in DispatchOutcome :
          ( /\ Trigger(r, d)
            /\ FiveConditions(r)
            /\ Head(job_queue[r]) # NONE
            /\ \/ d = "raises"
               \/ /\ jobs[Head(job_queue[r])].operation = "PICKUP"
                  /\ \A i \in CellIdx : cells[r][i] # NONE )
          => LET j == Head(job_queue[r]) IN
             /\ last_action_status'[r] = "ERROR"
             /\ jobs'[j].status = "FAILED"
             /\ job_updater' = Append(job_updater, j)
             /\ emitted' = Append(emitted, <<j, "FAILED">>)
             /\ current_job'[r] = NONE
             /\ current_cell'[r] = NO_CELL
             /\ cells' = cells
             /\ job_queue'[r] = Tail(job_queue[r])]_vars

\* C6 witness: with a cell of r1 holding a job, a PICKUP was promoted, had the
\* next cell reserved and its send_job raised; r1 is left in ERROR with the
\* job FAILED and another job still waiting in the queue.
C6_Witness ==
    /\ Len(send_log["r1"]) > 0
    /\ LET e == send_log["r1"][Len(send_log["r1"])] IN
          /\ e.outcome = "send_failed"
          /\ e.cell = 1
          /\ jobs[e.job].status = "FAILED"
    /\ cells["r1"][0] # NONE
    /\ last_action_status["r1"] = "ERROR"
    /\ current_job["r1"] = NONE
    /\ current_cell["r1"] = NO_CELL
    /\ Len(job_queue["r1"]) > 0

\* The jobs of the requests that successful calls of kind op admitted.
RequestJobsOf(op) ==
    {j \in 1 .. Len(jobs) :
        /\ jobs[j].request # NONE
        /\ jobs[j].order > 0
        /\ orders[jobs[j].order].op = op
        /\ orders[jobs[j].order].result = "success"}

\* The pickup job of the request that job j belongs to.
PickupOf(j) ==
    CHOOSE p \in 1 .. Len(jobs) :
        jobs[p].request = jobs[j].request /\ jobs[p].operation = "PICKUP"

\* The promotions of job j in r's log.
Promotions(r, j) == {i \in 1 .. Len(send_log[r]) : send_log[r][i].job = j}

\* C7: for a request admitted by accept_request_order, the delivery job is appended to
\* the robot's queue right after the request's pickup job, nothing between
\* them, and the delivery job is never promoted while the pickup job still
\* waits, nor before the pickup job's promotion.
C7_PickupThenDelivery ==
    \A r \in Robots : \A k \in 1 .. Len(assign_log[r]) :
        LET j == assign_log[r][k] IN
        (j # NONE /\ j \in RequestJobsOf("request")) =>
            IF jobs[j].operation = "PICKUP"
            THEN /\ k < Len(assign_log[r])
                 /\ assign_log[r][k + 1] # NONE
                 /\ jobs[assign_log[r][k + 1]].operation = "DELIVERY"
                 /\ jobs[assign_log[r][k + 1]].request = jobs[j].request
            ELSE /\ k > 1
                 /\ assign_log[r][k - 1] = PickupOf(j)
                 /\ \A i \in Promotions(r, j) :
                       /\ \A n \in 1 .. Len(job_queue[r]) : job_queue[r][n] # PickupOf(j)
                       /\ \A i2 \in Promotions(r, PickupOf(j)) : i2 < i

\* C7 witness: a request of accept_request_order had its pickup job and then
\* its delivery job dispatched on r1, which was also given a job of another order.
C7_Witness ==
    /\ Len(assign_log["r1"]) = 3
    /\ \E i, k \in 1 .. Len(send_log["r1"]) :
          /\ i < k
          /\ send_log["r1"][k].job \in RequestJobsOf("request")
          /\ jobs[send_log["r1"][k].job].operation = "DELIVERY"
          /\ send_log["r1"][i].job = PickupOf(send_log["r1"][k].job)
          /\ send_log["r1"][k].outcome = "sent"
\* ------------------------------------------------ accept_warehouse_order
\* Route slots of one warehouse order, over all its assignments.
MaxRouteSlots == 3

\* Warehouse orders made in one run of SpecWarehouse.
MaxWarehouseOrders == 1

\* A route: node ids, no node twice.
Routes ==
    {w \in UNION {[1 .. n -> Nodes] : n \in 1 .. MaxRouteSlots} :
        \A i, k \in 1 .. Len(w) : i # k => w[i] # w[k]}

\* The assignments of an order: each robot named at most once.
AssignmentLists ==
    {<<[robot_name |-> n, route |-> w]>> : n \in RobotNames, w \in Routes}
    \cup {<<[robot_name |-> n[1], route |-> w[1]], [robot_name |-> n[2], route |-> w[2]]>> :
            n \in {x \in Robots \X Robots : x[1] # x[2]},
            w \in {y \in Routes \X Routes : Len(y[1]) + Len(y[2]) <= MaxRouteSlots}}

\* create_node_to_robot_dict: node -> robot of the last assignment naming it.
create_node_to_robot_dict(assignments) ==
    LET has(i, n) == \E k \in 1 .. Len(assignments[i].route) : assignments[i].route[k] = n
        nodes == {n \in Nodes : \E i \in 1 .. Len(assignments) : has(i, n)}
    IN [n \in nodes |->
           assignments[CHOOSE i \in 1 .. Len(assignments) :
                           /\ has(i, n)
                           /\ \A k \in (i + 1) .. Len(assignments) : ~has(k, n)].robot_name]

\* create_robot_to_node_incides, for the assignment at place i: node -> the
\* last position of the node in that route (positions count from 1 here).
create_robot_to_node_incides(assignments, i) ==
    LET w == assignments[i].route
        nodes == {w[k] : k \in 1 .. Len(w)}
    IN [n \in nodes |->
           CHOOSE k \in 1 .. Len(w) : w[k] = n /\ \A m \in (k + 1) .. Len(w) : w[m] # n]

\* The place of robot_name's assignment (its key in robot_job_route).
AssignmentOf(assignments, robot_name) ==
    CHOOSE i \in 1 .. Len(assignments) : assignments[i].robot_name = robot_name

\* accept_warehouse_order, lines 148-158: the dictionaries are built.
AcceptWarehouseOrder(c, assignments) ==
    /\ Begin(c)
    /\ Cardinality({i \in 1 .. Len(orders) : orders[i].op = "warehouse"}) < MaxWarehouseOrders
    /\ IF \E i \in 1 .. Len(assignments) : assignments[i].robot_name \notin Robots
       THEN /\ Ended("warehouse", "raised")
            /\ UNCHANGED calls
       ELSE /\ Began("warehouse")
            /\ calls' = [calls EXCEPT ![c] =
                  [Idle EXCEPT !.op = "warehouse", !.pc = "loop", !.asg = assignments,
                               !.route = [i \in 1 .. Len(assignments) |->
                                             [k \in 1 .. Len(assignments[i].route) |-> NONE]],
                               !.order = Len(orders) + 1]]
    /\ UNCHANGED <<handlerVars, storeVars>>

\* One turn of the loop over the requests, lines 160-170, up to the first
\* await of create_request_jobs.
WarehouseRequest(c, pickup, delivery, ok) ==
    /\ calls[c].op = "warehouse"
    /\ calls[c].pc = "loop"
    /\ LET node_to_robot == create_node_to_robot_dict(calls[c].asg) IN
       IF pickup \notin DOMAIN node_to_robot \/ delivery \notin DOMAIN node_to_robot
       THEN \* KeyError
            /\ ok
            /\ Finish(c, "raised")
            /\ UNCHANGED <<handlerVars, storeVars>>
       ELSE IF node_to_robot[pickup] # node_to_robot[delivery]
       THEN /\ ok
            /\ Finish(c, "failure")
            /\ UNCHANGED <<handlerVars, storeVars>>
       ELSE /\ Room(2)
            /\ PickupJob(c, "warehouse", node_to_robot[pickup], calls[c].order,
                         pickup, delivery, ok)
            /\ UNCHANGED orders

WarehousePickupStored(c, ok) ==
    /\ calls[c].op = "warehouse"
    /\ calls[c].pc = "pickup_stored"
    /\ DeliveryJob(c, ok)

WarehouseDeliveryStored(c, ok) ==
    /\ calls[c].op = "warehouse"
    /\ calls[c].pc = "delivery_stored"
    /\ RequestRecord(c, ok)

\* Lines 172-174: the two jobs are placed in robot_job_route.
WarehouseRequestStored(c) ==
    /\ calls[c].op = "warehouse"
    /\ calls[c].pc = "request_stored"
    /\ IF ~calls[c].ok
       THEN Finish(c, "raised")
       ELSE LET i == AssignmentOf(calls[c].asg, calls[c].robot)
                at == create_robot_to_node_incides(calls[c].asg, i)
                r1 == [calls[c].route EXCEPT ![i][at[calls[c].pickup]] = calls[c].a]
                r2 == [r1 EXCEPT ![i][at[calls[c].delivery]] = calls[c].b]
            IN /\ calls' = [calls EXCEPT ![c].pc = "loop", ![c].route = r2]
               /\ UNCHANGED orders
    /\ UNCHANGED <<handlerVars, storeVars>>

\* Lines 176-178: assign_job for every slot of every route; an exception ends
\* it. A robot's send_job is called at most once on the way, outcome ds[robot].
RECURSIVE AssignRoutes(_, _, _, _, _, _)
AssignRoutes(S, assignments, route, i, k, ds) ==
    IF S.exc # "none" \/ i > Len(assignments) THEN S
    ELSE IF k > Len(route[i]) THEN AssignRoutes(S, assignments, route, i + 1, 1, ds)
    ELSE AssignRoutes(assign_job(S, assignments[i].robot_name, route[i][k],
                                 ds[assignments[i].robot_name]),
                      assignments, route, i, k + 1, ds)

\* The loop over the requests is over. An empty request list is `[] or None`
\* at line 160: iterating None raises TypeError.
WarehouseAssign(c, ds) ==
    /\ calls[c].op = "warehouse"
    /\ calls[c].pc = "loop"
    /\ IF calls[c].req = NONE
       THEN /\ \A r \in Robots : ds[r] = "sent"
            /\ Finish(c, "raised")
            /\ UNCHANGED <<handlerVars, storeVars>>
       ELSE LET S == AssignRoutes(Cur, calls[c].asg, calls[c].route, 1, 1, ds)
            IN /\ Commit(S)
               /\ Finish(c, IF S.exc = "none" THEN "success" ELSE "raised")
               /\ UNCHANGED <<active_status, is_connected, storeVars>>

NextWarehouse ==
    \/ \E c \in Callers, assignments \in AssignmentLists :
          AcceptWarehouseOrder(c, assignments)
    \/ \E c \in Callers, pickup \in Nodes, delivery \in Nodes, ok \in BOOLEAN :
          WarehouseRequest(c, pickup, delivery, ok)
    \/ \E c \in Callers, ok \in BOOLEAN : WarehousePickupStored(c, ok)
    \/ \E c \in Callers, ok \in BOOLEAN : WarehouseDeliveryStored(c, ok)
    \/ \E c \in Callers : WarehouseRequestStored(c)
    \/ \E c \in Callers, ds \in [Robots -> DispatchOutcome] : WarehouseAssign(c, ds)
    \/ \E r \in Robots, g \in GoalStatus, d \in DispatchOutcome : TransportResult(r, g, d)
    \/ \E r \in Robots, d \in DispatchOutcome : TransportError(r, d)
    \/ \E ok \in BOOLEAN : Drain(ok)

SpecWarehouse == Init /\ [][NextWarehouse]_vars

\* ------------------------------------------- properties of warehouse orders
\* The places of job j among the calls of assign on r.
AssignedAt(r, j) == {k \in 1 .. Len(assign_log[r]) : assign_log[r][k] = j}

\* C8: for every request admitted by a successful accept_warehouse_order, the
\* request's pickup job is assigned to its robot before its delivery job:
\* no call of assign for the delivery job comes before one for the pickup job.
C8_WarehousePickupFirst ==
    \A j \in RequestJobsOf("warehouse") :
        jobs[j].operation = "DELIVERY" =>
            \A kp \in AssignedAt(jobs[j].robot, PickupOf(j)) :
                \A kd \in AssignedAt(jobs[j].robot, j) : kp < kd

\* C9: nothing is passed to assign for an unclaimed route slot: no call of
\* assign was given an empty entry and no queue holds one.
C9_NoEmptyEntries ==
    \A r \in Robots :
        /\ \A k \in 1 .. Len(assign_log[r]) : assign_log[r][k] # NONE
        /\ \A k \in 1 .. Len(job_queue[r]) : job_queue[r][k] # NONE

\* C10: a warehouse order rejected for a request whose pickup and delivery
\* nodes belong to different robots leaves no job and no request of the order
\* in the OrderStore and no job of it in a queue.
C10_RejectedOrderLeavesNothing ==
    \A o \in 1 .. Len(orders) :
        (orders[o].op = "warehouse" /\ orders[o].result = "failure") =>
            \A j \in 1 .. Len(jobs) :
                jobs[j].order = o =>
                    /\ redis_jobs[j] = ABSENT
                    /\ \A x \in redis_requests : x.pickup # j /\ x.delivery # j
                    /\ \A r \in Robots : AssignedAt(r, j) = {}


\* A node id stands in the routes of two assignments.
SharedNode(assignments) ==
    \E i, k \in 1 .. Len(assignments) :
        /\ i # k
        /\ \E m \in 1 .. Len(assignments[i].route), n \in 1 .. Len(assignments[k].route) :
              assignments[i].route[m] = assignments[k].route[n]

\* C11: a warehouse order in which one node stands in the routes of two
\* assignments is rejected with nothing persisted and nothing enqueued: no
\* call of accept_warehouse_order for such an order has a job of the order in
\* the OrderStore, a request of it there, or a job of it given to a robot.
C11_SharedNodeRejected ==
    \A c \in Callers :
        (calls[c].op = "warehouse" /\ SharedNode(calls[c].asg)) =>
            \A j \in 1 .. Len(jobs) :
                jobs[j].order = calls[c].order =>
                    /\ redis_jobs[j] = ABSENT
                    /\ \A x \in redis_requests : x.pickup # j /\ x.delivery # j
                    /\ \A r \in Robots : AssignedAt(r, j) = {}


\* ------------------------------------------ properties of the callbacks
\* C12: when the transport reports result SUCCEEDED for r's current job, the
\* job's status is COMPLETED afterwards and, the queue being empty so that
\* trigger promotes nothing, r's action status is SUCCEEDED afterwards.
C12_SucceededResult ==
    [][\A r \in Served, d \in DispatchOutcome :
          (TransportResult(r, "SUCCEEDED", d) /\ current_job[r] # NONE) =>
              /\ jobs'[current_job[r]].status = "COMPLETED"
              /\ Len(job_queue[r]) = 0 => last_action_status'[r] = "SUCCEEDED"]_vars


\* The terminal events that are not a success: a result of status CANCELED,
\* ABORTED or any other status, and a transport error ("error").
NonSuccessEvents == (GoalStatus \ {"SUCCEEDED"}) \cup {"error"}

\* The transport delivers event e for a goal of r.
TransportEvent(r, e, d) ==
    IF e = "error" THEN TransportError(r, d) ELSE TransportResult(r, e, d)

\* The action status and the job status the claim gives for event e.
ClaimedActionStatus(e) == IF e = "CANCELED" THEN "CANCELED" ELSE "ERROR"

ClaimedJobStatus(e) == IF e = "CANCELED" THEN "CANCELED" ELSE "FAILED"

TerminalEvents == GoalStatus \cup {"error"}

\* The gate conditions as the trigger of a terminal event on r's current job
\* meets them: current_job was just emptied, and of the statuses a callback
\* sets only those of a SUCCEEDED and of a CANCELED result are ready.
GateAfterEvent(r, e) ==
    /\ active_status[r]
    /\ is_connected[r]
    /\ Len(job_queue[r]) > 0
    /\ e \in {"SUCCEEDED", "CANCELED"}

\* The updates handed to the channel by the step, in order.
NewUpdates == SubSeq(emitted', Len(emitted) + 1, Len(emitted'))

\* What every terminal event does to the finished job j of r, whatever comes
\* of trigger: current_job and current_cell let go of j, and one update, with
\* j's terminal status, is handed over before any other.
FinishedJobLetGo(r) ==
    LET j == current_job[r] IN
    /\ current_job'[r] # j
    /\ \/ current_cell'[r] = NO_CELL
       \/ /\ current_job'[r] # NONE
          /\ jobs'[current_job'[r]].operation = "PICKUP"
    /\ jobs'[j].status \in TerminalStatus
    /\ Len(NewUpdates) >= 1
    /\ NewUpdates[1] = <<j, jobs'[j].status>>
    /\ \A i \in 2 .. Len(NewUpdates) : NewUpdates[i][1] # j
    /\ Len(job_updater') = Len(job_updater) + Len(NewUpdates)
    /\ \A i \in 1 .. Len(NewUpdates) :
          job_updater'[Len(job_updater) + i] = NewUpdates[i][1]

\* C14 as stated: after a terminal event current_job and current_cell let go
\* of the finished job, one update with its terminal status was handed over,
\* and when the gate conditions hold the queue head is the new current_job.
C14_Original ==
    [][\A r \in Served, e \in TerminalEvents, d \in DispatchOutcome :
          (TransportEvent(r, e, d) /\ current_job[r] # NONE) =>
              /\ FinishedJobLetGo(r)
              /\ GateAfterEvent(r, e) =>
                    /\ job_queue'[r] = Tail(job_queue[r])
                    /\ current_job'[r] = Head(job_queue[r])]_vars

\* The promotion of r's queue head in this step must fail: send_job raises,
\* or the head is a PICKUP and every cell is held once the event is through.
PromotionFails(r, d) ==
    /\ Head(job_queue[r]) # NONE
    /\ \/ d = "raises"
       \/ /\ jobs[Head(job_queue[r])].operation = "PICKUP"
          /\ \A i \in CellIdx : cells'[r][i] # NONE

\* C14 amended: after a terminal event current_job and current_cell let go of
\* the finished job and one update with its terminal status was handed over;
\* trigger ran in the same step: when the gate conditions hold the queue head
\* was popped and is the new current_job, unless its cell allocation or its
\* dispatch raised: then it is FAILED, current_job is empty and the action
\* status is ERROR. When a gate condition fails the queue is as it was and
\* current_job is empty.
C14_TerminalEvent ==
    [][\A r \in Served, e \in TerminalEvents, d \in DispatchOutcome :
          (TransportEvent(r, e, d) /\ current_job[r] # NONE) =>
              /\ FinishedJobLetGo(r)
              /\ IF GateAfterEvent(r, e)
                 THEN /\ job_queue'[r] = Tail(job_queue[r])
                      /\ IF PromotionFails(r, d)
                         THEN /\ current_job'[r] = NONE
                              /\ current_cell'[r] = NO_CELL
                              /\ last_action_status'[r] = "ERROR"
                              /\ jobs'[Head(job_queue[r])].status = "FAILED"
                              /\ NewUpdates[Len(NewUpdates)] = <<Head(job_queue[r]), "FAILED">>
                         ELSE current_job'[r] = Head(job_queue[r])
                 ELSE /\ job_queue'[r] = job_queue[r]
                      /\ current_job'[r] = NONE
                      /\ Len(NewUpdates) = 1]_vars

\* C14 witness: a job of r1 completed and the queue head, promoted behind it,
\* failed at dispatch: both updates are the last handed over and r1 is in
\* ERROR with no current job and a job still waiting.
C14_Witness ==
    /\ Len(emitted) >= 3
    /\ emitted[Len(emitted) - 1][2] = "COMPLETED"
    /\ emitted[Len(emitted)][2] = "FAILED"
    /\ emitted[Len(emitted)][1] # emitted[Len(emitted) - 1][1]
    /\ current_job["r1"] = NONE
    /\ last_action_status["r1"] = "ERROR"
    /\ Len(job_queue["r1"]) > 0


\* ------------------------------------------------- properties of the cells
\* C15: a step writes a job id into a cell only when it is the terminal event
\* of a PICKUP current job that ends COMPLETED, and then it writes that job's
\* id into cells[current_cell] and into no other cell; a terminal event of a
\* PICKUP that ends FAILED or CANCELED, or of a job that is no PICKUP, and
\* every step that publishes IN_PROGRESS (a dispatch by assign, trigger or
\* clear_error) leave every cell as it was.
C15_HoldingSetOnPickupCompleted ==
    [][\A r \in Served :
          /\ \A e \in TerminalEvents, d \in DispatchOutcome :
                (TransportEvent(r, e, d) /\ current_job[r] # NONE) =>
                    LET j == current_job[r] IN
                    IF jobs[j].operation = "PICKUP" /\ jobs'[j].status = "COMPLETED"
                    THEN /\ current_cell[r] \in CellIdx
                         /\ cells' = [cells EXCEPT ![r][current_cell[r]] = j]
                    ELSE cells' = cells
          /\ \A i \in CellIdx :
                (cells'[r][i] # cells[r][i] /\ cells'[r][i] # NONE) =>
                    /\ \E d \in DispatchOutcome : TransportResult(r, "SUCCEEDED", d)
                    /\ current_job[r] # NONE
                    /\ jobs[current_job[r]].operation = "PICKUP"
                    /\ current_cell[r] = i
                    /\ cells'[r][i] = current_job[r]
          /\ ( /\ Len(emitted') > Len(emitted)
               /\ emitted'[Len(emitted')][2] = "IN_PROGRESS"
               /\ ~(\E e \in TerminalEvents, d \in DispatchOutcome :
                       TransportEvent(r, e, d)) )
             => cells' = cells]_vars

\* C15 witness: on r1 one PICKUP completed and is held by a cell, another
\* PICKUP was sent with a cell reserved and ended CANCELED or FAILED and is
\* held by none, and a third job is in progress.
C15_Witness ==
    /\ \E i \in CellIdx : cells["r1"][i] # NONE
    /\ \E k \in 1 .. Len(send_log["r1"]) :
          LET e == send_log["r1"][k] IN
          /\ e.outcome = "sent"
          /\ e.cell \in CellIdx
          /\ jobs[e.job].status \in {"CANCELED", "FAILED"}
          /\ \A i \in CellIdx : cells["r1"][i] # e.job
    /\ current_job["r1"] # NONE
    /\ jobs[current_job["r1"]].status = "IN_PROGRESS"


\* C16: a cell that holds a job id keeps holding it through every step that
\* is not a free_cell call on that cell; and the terminal event of a DELIVERY
\* or TRAVEL job, whatever its status, leaves every cell as it was.
C16_FreedOnlyByFreeCell ==
    [][/\ \A r \in Robots, i \in CellIdx :
             cells[r][i] # NONE =>
                 \/ cells'[r][i] = cells[r][i]
                 \/ FreeCell(r, i)
       /\ \A r \in Served, e \in TerminalEvents, d \in DispatchOutcome :
             ( /\ TransportEvent(r, e, d)
               /\ current_job[r] # NONE
               /\ jobs[current_job[r]].operation \in {"DELIVERY", "TRAVEL"} )
             => cells' = cells]_vars

\* C16 witness: the pickup job and the delivery job of a request both
\* completed on r1 and a cell of r1 still holds the pickup job.
C16_Witness ==
    \E p, q \in 1 .. Len(jobs) :
        /\ jobs[p].request # NONE
        /\ jobs[q].request = jobs[p].request
        /\ jobs[p].operation = "PICKUP"
        /\ jobs[q].operation = "DELIVERY"
        /\ jobs[p].status = "COMPLETED"
        /\ jobs[q].status = "COMPLETED"
        /\ \E i \in CellIdx : cells["r1"][i] = p


\* C17: in every state, the job a cell holds has a record in the OrderStore,
\* is a PICKUP, and its persisted status is COMPLETED.
C17_HeldJobPersistedCompleted ==
    \A r \in Robots, i \in CellIdx :
        cells[r][i] # NONE =>
            /\ redis_jobs[cells[r][i]] = "COMPLETED"
            /\ jobs[cells[r][i]].operation = "PICKUP"


\* The cells, of the cell array c, that hold job P.
Holders(c, P) == {i \in CellIdx : c[i] = P}

\* The PICKUP jobs of r that completed, among the Job objects js.
CompletedPickups(js, r) ==
    {P \in 1 .. Len(js) :
        /\ js[P].robot = r
        /\ js[P].operation = "PICKUP"
        /\ js[P].status = "COMPLETED"}

\* C18 as stated: in every state, each PICKUP job that completed on r is
\* held by exactly one cell of r.
C18_Original ==
    \A r \in Robots : \A P \in CompletedPickups(jobs, r) :
        Cardinality(Holders(cells[r], P)) = 1

\* C18 amended: a PICKUP job that completes on r is held by exactly one cell
\* of r at its completion; no step makes a second cell hold it; and the one
\* cell keeps holding it until free_cell is called on that cell, after which
\* no cell of r holds it.
C18_OneCellUntilFreed ==
    [][\A r \in Served : \A P \in CompletedPickups(jobs', r) :
          /\ Cardinality(Holders(cells'[r], P)) <= 1
          /\ IF P \notin CompletedPickups(jobs, r)
             THEN Cardinality(Holders(cells'[r], P)) = 1
             ELSE \/ Holders(cells'[r], P) = Holders(cells[r], P)
                  \/ /\ Holders(cells'[r], P) = {}
                     /\ \E i \in Holders(cells[r], P) : FreeCell(r, i)]_vars

\* C18 witness: two PICKUP jobs completed on r1; one is held by one cell, the
\* other was freed by free_cell and is held by none.
C18_Witness ==
    \E P, Q \in CompletedPickups(jobs, "r1") :
        /\ P # Q
        /\ Cardinality(Holders(cells["r1"], P)) = 1
        /\ Holders(cells["r1"], Q) = {}


\* C19: whenever a step promotes a job on r (one new entry in r's log of
\* promotions): a step that is no terminal event writes no cell; for a PICKUP
\* with a free cell, the cell passed to send_job is the free cell of lowest
\* index and it is current_cell when the goal was sent (the failure path of
\* C6 has emptied current_cell when send_job raised); for a PICKUP with every
\* cell held, send_job is not called and current_cell is left empty; a
\* DELIVERY or TRAVEL is passed UNUSED and current_cell stays empty.
C19_CellAllocation ==
    [][\A r \in Served :
          Len(send_log'[r]) > Len(send_log[r]) =>
              LET e == send_log'[r][Len(send_log'[r])]
                  free == {i \in CellIdx : cells'[r][i] = NONE}
              IN /\ Len(send_log'[r]) = Len(send_log[r]) + 1
                 /\ ~(\E ev \in TerminalEvents, d \in DispatchOutcome :
                         TransportEvent(r, ev, d))
                    => /\ cells' = cells
                       /\ e.outcome = "no_free_cell" => current_cell'[r] = current_cell[r]
                 /\ IF jobs'[e.job].operation = "PICKUP"
                    THEN IF free = {}
                         THEN /\ e.outcome = "no_free_cell"
                              /\ current_cell'[r] = NO_CELL
                         ELSE /\ e.outcome \in {"sent", "send_failed"}
                              /\ e.cell \in free
                              /\ \A k \in free : e.cell <= k
                              /\ current_cell'[r] =
                                    IF e.outcome = "sent" THEN e.cell ELSE NO_CELL
                    ELSE /\ e.outcome \in {"sent", "send_failed"}
                         /\ e.cell = UNUSED
                         /\ UNUSED = -1
                         /\ current_cell'[r] = NO_CELL]_vars

\* C19 witness: with cell 0 of r1 held, a PICKUP was sent with cell 1, and a
\* DELIVERY or TRAVEL job, sent with UNUSED, is now current with no cell.
C19_Witness ==
    /\ cells["r1"][0] # NONE
    /\ \E k \in 1 .. Len(send_log["r1"]) :
          /\ send_log["r1"][k].outcome = "sent"
          /\ send_log["r1"][k].cell = 1
    /\ LET e == send_log["r1"][Len(send_log["r1"])] IN
          /\ e.outcome = "sent"
          /\ e.cell = UNUSED
          /\ current_job["r1"] = e.job
    /\ current_cell["r1"] = NO_CELL


\* ------------------------------------------------ properties of cancelling
\* C20: a call cancel_job_order(j) that reads a terminal status changes
\* neither the store nor a queue. A call made while j, not terminal, waited
\* in its robot's queue removes j from the queue, persists CANCELED for it
\* when the store takes the write, and sends nothing to the transport; and j
\* is not dispatched from the moment the call was made.
C20_CancelQueuedJob ==
    [][\A c \in Callers :
          calls[c].op = "cancel_job" =>
              LET j == calls[c].a
                  r == jobs[j].robot
              IN /\ calls[c].read \in TerminalStatus =>
                       \A ok \in BOOLEAN :
                           CancelJobOrderRead(c, ok) =>
                               /\ redis_jobs' = redis_jobs
                               /\ job_queue' = job_queue
                 /\ (calls[c].queued /\ calls[c].read \notin TerminalStatus) =>
                       /\ Promotions(r, j) = {}
                       /\ \A i \in 1 .. Len(send_log'[r]) : send_log'[r][i].job # j
                       /\ \A ok \in BOOLEAN :
                             CancelJobOrderRead(c, ok) =>
                                 /\ Waiting(j)
                                 /\ job_queue'[r] = RemoveAt(job_queue[r], QueuedAt(job_queue[r], j))
                                 /\ ok => redis_jobs'[j] = "CANCELED"
                                 /\ send_log' = send_log
                                 /\ goals' = goals]_vars


\* ------------------------------------------ properties of remove_queued_job
\* C21: in every state, remove_queued_job(r, j) returns (it does not raise);
\* it leaves current_job, current_cell, the action status and the cells of
\* every robot as they are; when j is r's current job it removes nothing;
\* when j waits in r's queue it removes one entry holding j and keeps the
\* others in their order; otherwise it leaves the queue as it is.
C21_RemoveQueuedJobFrame ==
    \A r \in Served : \A j \in 1 .. Len(jobs) :
        LET S == remove_queued_job(Cur, r, j)
            q == job_queue[r]
        IN /\ S.exc = "none"
           /\ S.cj = current_job
           /\ S.cc = current_cell
           /\ S.st = last_action_status
           /\ S.cl = cells
           /\ \A x \in Robots \ {r} : S.q[x] = job_queue[x]
           /\ j = current_job[r] => S.q[r] = q
           /\ IF \E i \in 1 .. Len(q) : q[i] = j
              THEN \E i \in 1 .. Len(q) :
                      /\ q[i] = j
                      /\ S.q[r] = SubSeq(q, 1, i - 1) \o SubSeq(q, i + 1, Len(q))
              ELSE S.q[r] = q


\* ------------------------------------------ properties of accept_job_order
\* C22: a call of accept_job_order for a known robot with operation TRAVEL
\* and a target node that is not a WAYPOINT ends with a failure result
\* (success = false), leaves the OrderStore as it is and appends nothing to a
\* queue.
C22_TravelToNonWaypoint ==
    [][\A c \in Callers, n \in Robots, t \in Nodes, ok \in BOOLEAN :
          (NodeTypeOf(t) # "WAYPOINT" /\ AcceptJobOrder(c, n, "TRAVEL", t, ok)) =>
              /\ orders'[Len(orders')].result = "failure"
              /\ redis_jobs' = redis_jobs
              /\ redis_requests' = redis_requests
              /\ job_queue' = job_queue]_vars

\* C23: a call of accept_job_order naming a robot the fleet does not have
\* ends with a failure result (success = false, no job) and does not raise;
\* it writes nothing to the OrderStore and appends nothing to a queue.
C23_UnknownRobotJobOrder ==
    [][\A c \in Callers, o \in JobOperation, t \in Nodes, ok \in BOOLEAN :
          AcceptJobOrder(c, "rx", o, t, ok) =>
              /\ orders'[Len(orders')].result = "failure"
              /\ jobs' = jobs
              /\ redis_jobs' = redis_jobs
              /\ redis_requests' = redis_requests
              /\ job_queue' = job_queue]_vars

C25_UnknownRobotRequestOrder ==
    \A j \in 1 .. Len(jobs) :
        ( /\ jobs[j].order \in 1 .. Len(orders)
          /\ orders[jobs[j].order].op = "request"
          /\ jobs[j].robot \notin Robots ) =>
            /\ orders[jobs[j].order].result # "success"
            /\ redis_jobs[j] = ABSENT
            /\ \A x \in redis_requests : x.pickup # j /\ x.delivery # j

\* The store holds the delivery job of a request order only with its pickup
\* job, and the request only with both its jobs.
WritesInOrder ==
    /\ \A j \in 1 .. Len(jobs) :
          ( /\ jobs[j].order \in 1 .. Len(orders)
            /\ orders[jobs[j].order].op = "request"
            /\ jobs[j].operation = "DELIVERY"
            /\ redis_jobs[j] # ABSENT ) => redis_jobs[PickupOf(j)] # ABSENT
    /\ \A x \in redis_requests :
          redis_jobs[x.pickup] # ABSENT /\ redis_jobs[x.delivery] # ABSENT

\* The step of call c of accept_request_order that follows a failed write:
\* the call ends with one of `results`, the store and the queues stay as they
\* are, and no job of the order was ever given to a robot.
AbortsAfterFailedWrite(c, results) ==
    ( /\ calls[c].op = "request"
      /\ ~calls[c].ok
      /\ calls'[c] # calls[c] ) =>
        /\ calls'[c].op = "idle"
        /\ orders'[calls[c].order].result \in results
        /\ redis_jobs' = redis_jobs
        /\ redis_requests' = redis_requests
        /\ job_queue' = job_queue
        /\ current_job' = current_job
        /\ \A r \in Robots : \A k \in 1 .. Len(assign_log'[r]) :
              assign_log'[r][k] # NONE => jobs[assign_log'[r][k]].order # calls[c].order

\* C26: accept_request_order writes the pickup job, the delivery job and the
\* request in that order; when one of the writes fails the call ends with a
\* failure result, makes none of the later writes and appends neither job to
\* a queue.
C26_RequestWrites ==
    /\ []WritesInOrder
    /\ [][\A c \in Callers : AbortsAfterFailedWrite(c, {"failure"})]_vars


\* ------------------------------------------- properties of persistence
\* Every job that waits in a queue or is a current job has a store record.
QueuedJobsStored ==
    \A r \in Robots :
        /\ \A k \in 1 .. Len(job_queue[r]) :
              job_queue[r][k] # NONE => redis_jobs[job_queue[r][k]] # ABSENT
        /\ current_job[r] # NONE => redis_jobs[current_job[r]] # ABSENT

\* A job's record is first written with status QUEUING, and a job given to a
\* robot in this step had its record before the step.
StoredBeforeAssigned ==
    /\ \A j \in JobIds :
          (redis_jobs[j] = ABSENT /\ redis_jobs'[j] # ABSENT) => redis_jobs'[j] = "QUEUING"
    /\ \A r \in Robots :
          \A k \in (Len(assign_log[r]) + 1) .. Len(assign_log'[r]) :
              assign_log'[r][k] # NONE => redis_jobs[assign_log'[r][k]] # ABSENT

\* C27: no job admitted through the WarehouseController reaches a robot before
\* it is persisted: every job in a queue or current on a robot has a store
\* record, first written with status QUEUING before the job was given to the
\* robot; and when set_job fails in accept_job_order the call ends with a
\* failure result and the job is given to no robot.
C27_PersistedBeforeEnqueued ==
    /\ []QueuedJobsStored
    /\ [][StoredBeforeAssigned]_vars
    /\ [][\A c \in Callers :
            (calls[c].op = "job" /\ ~calls[c].ok /\ calls'[c] # calls[c]) =>
                /\ orders'[calls[c].order].result = "failure"
                /\ job_queue' = job_queue
                /\ current_job' = current_job
                /\ assign_log' = assign_log]_vars

\* A job order ended in failure on its store write, its job with no record
\* and on no robot, while a stored job is current on r1 and another waits.
C27_Witness ==
    /\ \E j \in 1 .. Len(jobs) :
          /\ orders[jobs[j].order].op = "job"
          /\ orders[jobs[j].order].result = "failure"
          /\ redis_jobs[j] = ABSENT
          /\ AssignedAt("r1", j) = {}
    /\ current_job["r1"] # NONE
    /\ Len(job_queue["r1"]) > 0


\* ------------------------------------------------ properties of clear_error
\* C28: in every state, clear_error on a robot whose action status is ERROR
\* sets the status to IDLE, runs trigger and returns true; on a robot in any
\* other status it returns false and changes nothing of the handler.
C28_ClearError ==
    \A r \in Served : \A d \in DispatchOutcome :
        IF last_action_status[r] = "ERROR"
        THEN /\ clear_error_returns(Cur, r, d) = "True"
             /\ clear_error(Cur, r, d) = trigger([Cur EXCEPT !.st[r] = "IDLE"], r, d)
        ELSE /\ clear_error_returns(Cur, r, d) = "False"
             /\ clear_error(Cur, r, d) = Cur


\* ------------------------------------------------ properties of the drainer
\* Updates consumed so far.
Consumed == Len(emitted) - Len(job_updater)

\* The channel holds, in the order they were handed over, exactly the
\* updates that were emitted and not yet consumed.
ChannelIsBacklog ==
    /\ Consumed >= 0
    /\ \A i \in 1 .. Len(job_updater) : job_updater[i] = emitted[Consumed + i][1]

\* One turn of the drainer takes the oldest update off the channel and makes
\* one call of set_job for its job, which the store takes or refuses.
OneSetJobPerUpdate(ok) ==
    Drain(ok) =>
        /\ job_updater' = Tail(job_updater)
        /\ emitted' = emitted
        /\ IF ok
           THEN /\ redis_jobs' = [redis_jobs EXCEPT ![Head(job_updater)] =
                                      jobs[Head(job_updater)].status]
                /\ store_failures' = store_failures
           ELSE /\ redis_jobs' = redis_jobs
                /\ store_failures' = store_failures + 1

\* C29: every status update handed to the channel is consumed by the drainer
\* once, in its turn, with one call of set_job; none is dropped and none is
\* consumed twice: the channel always holds exactly the updates emitted and
\* not yet consumed, only a turn of the drainer takes one off, and the
\* drainer is ready for the next update also after a set_job that failed.
C29_DrainedOnce ==
    /\ []ChannelIsBacklog
    /\ [](Len(job_updater) > 0 => ENABLED Drain(TRUE))
    /\ [][\A ok \in BOOLEAN : OneSetJobPerUpdate(ok)]_vars
    /\ [][Len(job_updater') < Len(job_updater) => \E ok \in BOOLEAN : Drain(ok)]_vars

\* Two updates of one job were emitted and both consumed, one with a set_job
\* that the store refused, the other written.
C29_Witness ==
    /\ Len(emitted) = 2
    /\ Len(job_updater) = 0
    /\ store_failures = 1
    /\ Len(orders) = 1
    /\ orders[1].op = "job" /\ orders[1].result = "success"
    /\ redis_jobs[1] \in TerminalStatus

\* C30: for every job the statuses the drainer writes to the OrderStore are,
\* in order, the statuses the handler emitted for it: the set_job the drainer
\* makes for an update writes the status that update was emitted with.
C30_WritesFollowEmitted ==
    [][Drain(TRUE) =>
          redis_jobs'[Head(job_updater)] = emitted[Consumed + 1][2]]_vars


\* ------------------------------------------- properties of the job queue
\* C31: in every state and for every robot r, current_job(r) is empty or is
\* not an entry of r's queue.
C31_CurrentNotQueued ==
    \A r \in Robots :
        current_job[r] # NONE =>
            \A k \in 1 .. Len(job_queue[r]) : job_queue[r][k] # current_job[r]

\* r1 runs a job while two others wait in its queue.
C31_Witness ==
    /\ current_job["r1"] # NONE
    /\ Len(job_queue["r1"]) = 2


\* ----------------------------------------------- the OrderStore's reads
\* Reads made in one run of SpecStore.
MaxReads == 2

\* The error get_request_status raises for a request with a job that is absent.
InconsistentState == "RuntimeError"

\* Mutant of get_request_status: CANCELED is looked for before FAILED.
get_request_status_canceled_first(pickup, delivery) ==
    IF pickup = ABSENT \/ delivery = ABSENT THEN InconsistentState
    ELSE IF "CANCELED" \in {pickup, delivery} THEN "CANCELED"
    ELSE IF "FAILED" \in {pickup, delivery} THEN "FAILED"
    ELSE IF pickup = "COMPLETED" /\ delivery = "COMPLETED" THEN "COMPLETED"
    ELSE IF "IN_PROGRESS" \in {pickup, delivery} THEN "IN_PROGRESS"
    ELSE "QUEUING"

\* get_request_status(request), from the statuses get_job gave for its two jobs.
get_request_status(pickup, delivery) ==
    IF pickup = ABSENT \/ delivery = ABSENT THEN InconsistentState
    ELSE IF "FAILED" \in {pickup, delivery} THEN "FAILED"
    ELSE IF "CANCELED" \in {pickup, delivery} THEN "CANCELED"
    ELSE IF pickup = "COMPLETED" /\ delivery = "COMPLETED" THEN "COMPLETED"
    ELSE IF "IN_PROGRESS" \in {pickup, delivery} THEN "IN_PROGRESS"
    ELSE "QUEUING"

\* ---- the hash of a Job: helpers/serializers.py and helpers/deserializers.py
\* Enum.value of the three enums a hash holds (enums.py).
OrderStatusValue(status) ==
    CASE status = "QUEUING" -> 0
      [] status = "IN_PROGRESS" -> 1
      [] status = "FAILED" -> 2
      [] status = "CANCELED" -> 3
      [] status = "COMPLETED" -> 4

JobOperationValue(operation) ==
    CASE operation = "TRAVEL" -> 0
      [] operation = "PICKUP" -> 1
      [] operation = "DELIVERY" -> 2

NodeTypeValue(node_type) ==
    CASE node_type = "WAYPOINT" -> 0
      [] node_type = "SHELF" -> 2
      [] node_type = "DEPOT" -> 4

\* str(n) and int(s) for the small integers a hash holds.
str(n) == ToString(n)

int(s) == CHOOSE n \in 0 .. 9 : ToString(n) = s

\* json.dumps(node_to_dict(node)): the JSON text of a Node's fields.
json_dumps_node(node) ==
    <<"json", [id |-> node, node_type |-> NodeTypeValue(NodeTypeOf(node))]>>

\* dict_to_node(json.loads(text)).
dict_to_node(text) ==
    CHOOSE n \in Nodes :
        n = text[2].id /\ NodeTypeValue(NodeTypeOf(n)) = text[2].node_type

\* job_to_dict(job), its values stringified as hset does.
job_to_dict(job) ==
    [status |-> str(OrderStatusValue(job.status)),
     operation |-> str(JobOperationValue(job.operation)),
     target_node |-> json_dumps_node(job.target_node),
     request |-> IF job.request_uuid # NONE THEN str(job.request_uuid) ELSE "",
     handling_robot |-> job.handling_robot_name]

\* The fields Job(...) must be given (api/types.py): none has a default.
JobFields ==
    {"uuid", "status", "operation", "target_node", "request_uuid", "handling_robot_name"}

\* Job(**kwargs): a TypeError when a field is missing.
Job(kwargs) ==
    IF DOMAIN kwargs = JobFields THEN kwargs ELSE [exc |-> "TypeError"]

\* dict_to_job(uuid, data) for a hash that is not empty: the keywords it
\* gives to Job(...) have no status.
dict_to_job(uuid, data) ==
    Job([uuid |-> uuid,
         operation |-> CHOOSE o \in JobOperation :
                          JobOperationValue(o) = int(data.operation),
         target_node |-> dict_to_node(data.target_node),
         request_uuid |-> IF data.request # "" THEN int(data.request) ELSE NONE,
         handling_robot_name |-> data.handling_robot])

\* The Job objects SpecStore serialises.
JobObjects ==
    [uuid : {1}, status : OrderStatus, operation : JobOperation,
     target_node : {1, 2}, request_uuid : {NONE, 1}, handling_robot_name : {"r1"}]

\* A Job is written to its hash and read back: set_job, then get_job.
SetAndGetJob(uuid) ==
    /\ uuid \in 1 .. Len(jobs)
    /\ Len(orders) < MaxReads
    /\ Ended("get_job", dict_to_job(uuid, job_to_dict(jobs[uuid])))
    /\ UNCHANGED <<handlerVars, storeVars, calls>>

\* Request.status: the resolver reads the derived status of a stored request.
GetRequestStatus(x) ==
    /\ x \in redis_requests
    /\ Len(orders) < MaxReads
    /\ Ended("get_request_status",
             get_request_status(redis_jobs[x.pickup], redis_jobs[x.delivery]))
    /\ UNCHANGED <<handlerVars, storeVars, calls>>

\* A store left by an earlier run of the gateway: one request, whose two jobs
\* have any status or no record; and one Job object of this run.
InitStore ==
    /\ active_status = [r \in Robots |-> TRUE]
    /\ is_connected = [r \in Robots |-> TRUE]
    /\ last_action_status = [r \in Robots |-> "IDLE"]
    /\ current_job = [r \in Robots |-> NONE]
    /\ current_cell = [r \in Robots |-> NO_CELL]
    /\ job_queue = [r \in Robots |-> <<>>]
    /\ cells = [r \in Robots |-> [i \in CellIdx |-> NONE]]
    /\ goals = [r \in Robots |-> 0]
    /\ \E job \in JobObjects : jobs = <<job>>
    /\ job_updater = <<>>
    /\ send_log = [r \in Robots |-> <<>>]
    /\ assign_log = [r \in Robots |-> <<>>]
    /\ emitted = <<>>
    /\ \E p, d \in OrderStatus \cup {ABSENT} :
          redis_jobs = [j \in JobIds |-> IF j = 1 THEN p ELSE IF j = 2 THEN d ELSE ABSENT]
    /\ redis_requests = {[uuid |-> 1, pickup |-> 1, delivery |-> 2, robot |-> "r1"]}
    /\ request_count = 1
    /\ store_failures = 0
    /\ calls = [c \in Callers |-> Idle]
    /\ thr = [t \in Threads |-> Returned]
    /\ orders = <<>>

NextStore ==
    \/ \E x \in redis_requests : GetRequestStatus(x)
    \/ SetAndGetJob(1)

SpecStore == InitStore /\ [][NextStore]_vars

\* ---------------------------------------- properties of get_request_status
\* The status the table gives for a pair of statuses, row by row.
Derived(p, d) ==
    CASE "FAILED" \in {p, d} -> "FAILED"
      [] "FAILED" \notin {p, d} /\ "CANCELED" \in {p, d} -> "CANCELED"
      [] {p, d} = {"COMPLETED"} -> "COMPLETED"
      [] {p, d} \in {{"IN_PROGRESS"}, {"IN_PROGRESS", "QUEUING"},
                     {"IN_PROGRESS", "COMPLETED"}} -> "IN_PROGRESS"
      [] {p, d} \in {{"QUEUING"}, {"QUEUING", "COMPLETED"}} -> "QUEUING"

\* C32: every read of a request's status gives the status the table derives
\* from the statuses of its pickup and delivery job, and nothing else enters
\* it: FAILED if either is FAILED, else CANCELED if either is CANCELED, else
\* COMPLETED if both are, else IN_PROGRESS if either is, else QUEUING; and the
\* read fails with an error when either job has no record.
C32_DerivedStatus ==
    \A o \in 1 .. Len(orders) :
        orders[o].op = "get_request_status" =>
            orders[o].result =
                IF redis_jobs[1] = ABSENT \/ redis_jobs[2] = ABSENT
                THEN InconsistentState
                ELSE Derived(redis_jobs[1], redis_jobs[2])

\* The status of a request with a FAILED pickup and a CANCELED delivery was read.
C32_Witness ==
    /\ redis_jobs[1] = "FAILED"
    /\ redis_jobs[2] = "CANCELED"
    /\ Len(orders) = 1
    /\ orders[1].op = "get_request_status"
    /\ orders[1].result = "FAILED"


\* ------------------------------------------- properties of serialisation
\* C33: a Job written to its hash by job_to_dict, with the values
\* stringified, and read back by dict_to_job with its uuid is a Job equal to
\* the one written in uuid, status, operation, target node, request id and
\* handling robot name, whatever its status and operation and whether or not
\* it has a request id.
C33_JobRoundTrip ==
    \A o \in 1 .. Len(orders) :
        orders[o].op = "get_job" => orders[o].result = jobs[1]


\* ------------------------------------------- properties of cancelled jobs
\* C34: a job whose persisted status becomes CANCELED through
\* cancel_job_order or cancel_request_order is, when that is written, neither
\* the current job of a robot nor an entry of a robot's queue.
C34_CancelledNotRunning ==
    [][\A c \in Callers, ok \in BOOLEAN :
          (CancelJobOrderRead(c, ok) \/ CancelRequestOrderRead(c, ok)) =>
              \A j \in 1 .. Len(jobs) :
                  (redis_jobs[j] # "CANCELED" /\ redis_jobs'[j] = "CANCELED") =>
                      \A r \in Robots :
                          /\ current_job'[r] # j
                          /\ \A k \in 1 .. Len(job_queue'[r]) : job_queue'[r][k] # j]_vars


\* -------------------------------------- properties of a request's two jobs
\* C35: a DELIVERY job of a request is sent to the transport only after the
\* request's PICKUP job completed: whenever send_job was called for it, the
\* pickup job's status is COMPLETED.
C35_DeliveryAfterCompletedPickup ==
    \A r \in Robots : \A i \in 1 .. Len(send_log[r]) :
        LET j == send_log[r][i].job IN
        ( /\ j # NONE
          /\ jobs[j].operation = "DELIVERY"
          /\ jobs[j].request # NONE
          /\ send_log[r][i].outcome = "sent" ) =>
            jobs[PickupOf(j)].status = "COMPLETED"


\* ----------------------------------------------- liveness of the job queue
\* C36: whenever a robot is active and ONLINE, has no current job, a ready
\* action status and a job at the head of its queue, that job is eventually
\* promoted by trigger, whether or not a further call of the API is made:
\* the robot does not stay in that condition with the job waiting. (A job
\* taken from the queue by a cancel, or a condition that ceases to hold, is
\* not held against the claim.)
C36_QueueHeadDispatched ==
    \A r \in Served : \A j \in JobIds :
        (Gate(Cur, r) /\ Head(job_queue[r]) = j) ~>
            \/ Promotions(r, j) # {}
            \/ ~Gate(Cur, r)
            \/ Head(job_queue[r]) # j

\* ------------------------------------- properties of a warehouse order's jobs
\* C37: after a successful accept_warehouse_order every job the order wrote
\* to the OrderStore was passed to assign on its robot exactly once; none is
\* left with status QUEUING outside every queue, never given to a robot.
C37_PersistedJobsEnqueued ==
    \A o \in 1 .. Len(orders) :
        (orders[o].op = "warehouse" /\ orders[o].result = "success") =>
            \A j \in 1 .. Len(jobs) :
                (jobs[j].order = o /\ redis_jobs[j] # ABSENT) =>
                    Cardinality(AssignedAt(jobs[j].robot, j)) = 1

\* ------------------------------------------- properties of job conservation
\* The places where robot r holds job j: entries of its queue, and current_job.
HeldCount(r, j) ==
    Cardinality({i \in 1 .. Len(job_queue[r]) : job_queue[r][i] = j})
        + (IF current_job[r] = j THEN 1 ELSE 0)

Held(j) == \E r \in Robots : HeldCount(r, j) > 0

\* The jobs passed to assign so far.
AssignedJobs ==
    UNION {{assign_log[r][i] : i \in 1 .. Len(assign_log[r])} : r \in Robots} \ {NONE}

\* The terminal updates emitted for job j.
TerminalUpdates(j) ==
    {i \in 1 .. Len(emitted) : emitted[i][1] = j /\ emitted[i][2] \in TerminalStatus}

\* An assigned job is held in one place at most, was taken up by one dispatch
\* at most, and when it is held nowhere it either got a terminal update or
\* was never touched by a dispatch (it was taken from the queue while waiting).
JobsHeldOnce ==
    \A j \in AssignedJobs :
        /\ HeldCount("r1", j) + HeldCount("r2", j) <= 1
        /\ Cardinality(Promotions("r1", j)) + Cardinality(Promotions("r2", j)) <= 1
        /\ ~Held(j) =>
              \/ TerminalUpdates(j) # {}
              \/ /\ Promotions("r1", j) = {} /\ Promotions("r2", j) = {}
                 /\ \A i \in 1 .. Len(emitted) : emitted[i][1] # j

\* The step takes job j out of r's queue and does nothing else to the jobs:
\* what remove_queued_job does.
RemovedFromQueue(r, j) ==
    /\ \E i \in 1 .. Len(job_queue[r]) :
          /\ job_queue[r][i] = j
          /\ job_queue'[r] = SubSeq(job_queue[r], 1, i - 1)
                                 \o SubSeq(job_queue[r], i + 1, Len(job_queue[r]))
    /\ current_job' = current_job
    /\ emitted' = emitted
    /\ send_log' = send_log

\* A job that the handler held before a step and holds no more after it left
\* with a terminal update emitted in that step, or by remove_queued_job.
LeavesByUpdateOrRemoval ==
    \A j \in AssignedJobs :
        (Held(j) /\ ~Held(j)') =>
            \/ \E i \in 1 .. Len(NewUpdates) :
                  NewUpdates[i][1] = j /\ NewUpdates[i][2] \in TerminalStatus
            \/ \E r \in Robots : RemovedFromQueue(r, j)

\* C38: with every handler operation atomic, each job passed to assign is
\* taken up by a dispatch at most once, is held at most once across the queues
\* and current_job, and stops being held only in a step that emits a terminal
\* update for it or removes it from the queue; no assigned job disappears.
C38_JobConservation == []JobsHeldOnce /\ [][LeavesByUpdateOrRemoval]_vars

\* A job that left with a terminal update, a job that was removed from the
\* queue while it waited, and a job still held.
C38_Witness ==
    \E a, b, c \in AssignedJobs :
        /\ ~Held(a) /\ TerminalUpdates(a) # {}
        /\ ~Held(b) /\ \A i \in 1 .. Len(emitted) : emitted[i][1] # b
        /\ Held(c)

\* ------------------------------------------- properties of a job's updates
\* The statuses emitted for job j, in the order they were put on job_updater.
RECURSIVE StatusesIn(_, _)
StatusesIn(updates, j) ==
    IF updates = <<>> THEN <<>>
    ELSE (IF Head(updates)[1] = j THEN <<Head(updates)[2]>> ELSE <<>>)
             \o StatusesIn(Tail(updates), j)

StatusesOf(j) == StatusesIn(emitted, j)

\* The updates of a job that was dispatched and ended, or failed to dispatch.
FinishedUpdates(u) ==
    \/ u = <<"FAILED">>
    \/ Len(u) = 2 /\ u[1] = "IN_PROGRESS" /\ u[2] \in TerminalStatus

Waits(j) == \E r \in Robots : \E i \in 1 .. Len(job_queue[r]) : job_queue[r][i] = j

Runs(j) == \E r \in Robots : current_job[r] = j

\* C39: the updates emitted for a job are [IN_PROGRESS, T] with T terminal,
\* or [FAILED] alone: a job that waits, or was taken from the queue, has none;
\* the current job has IN_PROGRESS only; a job that ended has the whole
\* sequence and gets nothing after it; and a terminal callback that finds
\* current_job empty emits nothing.
C39_UpdatesPerJob ==
    /\ \A j \in 1 .. Len(jobs) :
          /\ Waits(j) => StatusesOf(j) = <<>>
          /\ Runs(j) => StatusesOf(j) = <<"IN_PROGRESS">>
          /\ (~Waits(j) /\ ~Runs(j)) =>
                StatusesOf(j) = <<>> \/ FinishedUpdates(StatusesOf(j))
    /\ \A r \in Served :
          current_job[r] = NONE =>
              /\ \A g \in GoalStatus, d \in DispatchOutcome :
                    on_result(Cur, r, g, d).em = emitted
              /\ \A d \in DispatchOutcome : on_error(Cur, r, d).em = emitted

\* One job ended after it ran, one failed to dispatch, one waits; the robot
\* has no current job, so a callback now would be a late one.
C39_Witness ==
    \E a, b, c \in 1 .. Len(jobs) :
        /\ Len(StatusesOf(a)) = 2
        /\ StatusesOf(b) = <<"FAILED">>
        /\ Waits(c)
        /\ current_job[jobs[c].robot] = NONE

\* ------------------------------------- properties of the action status
\* Between handler operations the action status is OPERATING exactly while
\* there is a current job.
OperatingIffCurrent ==
    \A r \in Served : (last_action_status[r] = "OPERATING") <=> (current_job[r] # NONE)

\* current_cell is set only while the current job is a PICKUP.
CellOnlyForPickup ==
    \A r \in Served :
        current_cell[r] # NO_CELL =>
            current_job[r] # NONE /\ jobs[current_job[r]].operation = "PICKUP"

\* A terminal callback of a goal sent earlier that finds current_job empty
\* leaves the action status.
LateCallbackKeepsStatus ==
    \A r \in Served :
        (/\ current_job[r] = NONE
         /\ \E i \in 1 .. Len(send_log[r]) : send_log[r][i].outcome = "sent") =>
            /\ \A g \in GoalStatus, d \in DispatchOutcome :
                  on_result(Cur, r, g, d).st = last_action_status
            /\ \A d \in DispatchOutcome : on_error(Cur, r, d).st = last_action_status

\* C40: between handler operations the action status is OPERATING if and only
\* if current_job is set; current_cell is set only while the current job is a
\* PICKUP; and a late or duplicate terminal callback that finds current_job
\* empty does not change the action status.
C40_ActionStatusTracksJob ==
    OperatingIffCurrent /\ CellOnlyForPickup /\ LateCallbackKeepsStatus

====
